---- MODULE Spec2Model ----
(***************************************************************************)
(* Model of the expression evaluation engine of the calculator             *)
(* (src/src/js/modules/CalculatorEngine.js): calculate, toRPN and          *)
(* evaluateRPN, with the tokenizer regular expressions, the operator       *)
(* table and the result formatting.                                        *)
(*                                                                         *)
(* A string is a sequence of one-character strings.  A JavaScript number   *)
(* is modelled by the exact rational <<numerator, denominator>> in lowest  *)
(* terms with a positive denominator; for the inputs within the bounds     *)
(* below every comparison with zero made by the code has the same answer   *)
(* on the rational as on the IEEE-754 double.                              *)
(***************************************************************************)
EXTENDS Integers, Sequences, FiniteSets, TLC

(***************************************************************************)
(* Bounds of the input space.                                              *)
(***************************************************************************)
\* longest input over the full input alphabet
MaxLen == 4
\* longest input over the core alphabet (no whitespace, no illegal character)
MaxCoreLen == 5
\* most operators in a generated well-formed expression
MaxOps == 2
\* longest input over the full alphabet in the specification of repeated calls
MaxSeqLen == 3

(***************************************************************************)
(* Character classes of the regular expressions.                           *)
(***************************************************************************)
\* \d
Digit == {"0", "1", "2", "3", "4", "5", "6", "7", "8", "9"}

\* \s (the members that occur in the input alphabet)
Whitespace == {" ", "\t"}

\* [+\-*/()]
OperatorOrParen == {"+", "-", "*", "/", "(", ")"}

\* [0-9+\-*/.()]
AllowedChars == Digit \cup OperatorOrParen \cup {"."}

DigitValue(c) ==
    CASE c = "0" -> 0 [] c = "1" -> 1 [] c = "2" -> 2 [] c = "3" -> 3
      [] c = "4" -> 4 [] c = "5" -> 5 [] c = "6" -> 6 [] c = "7" -> 7
      [] c = "8" -> 8 [] c = "9" -> 9

(***************************************************************************)
(* Numbers.                                                                *)
(***************************************************************************)
Abs(n) == IF n < 0 THEN -n ELSE n

RECURSIVE GCD(_, _)
GCD(a, b) == IF b = 0 THEN a ELSE GCD(b, a % b)

\* the number n/d (d # 0) in lowest terms
Rat(n, d) ==
    LET g == GCD(Abs(n), Abs(d))
        s == IF d < 0 THEN -1 ELSE 1
    IN  <<(s * n) \div g, (s * d) \div g>>

Zero == <<0, 1>>

RECURSIVE Pow10(_)
Pow10(k) == IF k = 0 THEN 1 ELSE 10 * Pow10(k - 1)

\* Number.isInteger
IsInteger(x) == x[2] = 1

\* the number of digits toFixed keeps after the decimal point
FractionDigits == 8

\* the first k decimal digits of r/d (0 <= r < d) as an integer, and the
\* remainder left after them
RECURSIVE LongDivision(_, _, _)
LongDivision(r, d, k) ==
    IF k = 0 THEN <<0, r>>
    ELSE LET rest == LongDivision(r, d, k - 1)
             t    == rest[2] * 10
         IN  <<rest[1] * 10 + (t \div d), t % d>>

\* parseFloat(x.toFixed(8)): x rounded to 8 digits after the decimal point,
\* a tie rounded away from zero.  A number whose denominator divides 10^8
\* has at most 8 such digits and comes back unchanged.
ToFixedParsed(x) ==
    LET m    == Abs(x[1])
        d    == x[2]
        q    == m \div d
        frac == LongDivision(m % d, d, FractionDigits)
        up   == IF 2 * frac[2] >= d THEN 1 ELSE 0
        n    == q * Pow10(FractionDigits) + frac[1] + up
    IN  IF Pow10(FractionDigits) % d = 0 THEN x
        ELSE Rat((IF x[1] < 0 THEN -1 ELSE 1) * n, Pow10(FractionDigits))

\* the result handed back as it is on the stack
FormatResultRaw(x) == x

\* Number.isInteger(result) ? result : parseFloat(result.toFixed(8))
FormatResult(x) == IF IsInteger(x) THEN x ELSE ToFixedParsed(x)

(***************************************************************************)
(* calculate: sanitising and validation.                                   *)
(***************************************************************************)
\* the first index from i on that holds no whitespace (Len(s) + 1 if none)
RECURSIVE WhitespaceRunEnd(_, _)
WhitespaceRunEnd(s, i) ==
    IF i <= Len(s) /\ s[i] \in Whitespace THEN WhitespaceRunEnd(s, i + 1) ELSE i

\* expression.replace(/\s+/, ''): without the g flag only the first run of
\* whitespace is removed
RECURSIVE ReplaceFirstWhitespace(_, _)
ReplaceFirstWhitespace(s, i) ==
    IF i > Len(s) THEN <<>>
    ELSE IF s[i] \in Whitespace
         THEN SubSeq(s, WhitespaceRunEnd(s, i), Len(s))
         ELSE <<s[i]>> \o ReplaceFirstWhitespace(s, i + 1)

\* expression.replace(/\s+/g, '') from index i on
RECURSIVE ReplaceWhitespace(_, _)
ReplaceWhitespace(s, i) ==
    IF i > Len(s) THEN <<>>
    ELSE IF s[i] \in Whitespace
         THEN ReplaceWhitespace(s, WhitespaceRunEnd(s, i))
         ELSE <<s[i]>> \o ReplaceWhitespace(s, i + 1)

\* /[0-9+\-*/.()]+/.test(expression): without the anchors one allowed
\* character is enough
ValidExpressionUnanchored(e) == \E i \in 1..Len(e) : e[i] \in AllowedChars

\* /^[0-9+\-*/.()]+$/.test(expression)
ValidExpression(e) == Len(e) >= 1 /\ \A i \in 1..Len(e) : e[i] \in AllowedChars

(***************************************************************************)
(* toRPN: the tokenizer.                                                   *)
(***************************************************************************)
\* the first index from i on that holds no digit (Len(e) + 1 if none)
RECURSIVE DigitRunEnd(_, _)
DigitRunEnd(e, i) ==
    IF i <= Len(e) /\ e[i] \in Digit THEN DigitRunEnd(e, i + 1) ELSE i

\* the same for the pattern \d+\.?\d*: digits first, then an optional
\* decimal point and any digits after it
NumberMatchEndDigitsFirst(e, i) ==
    LET k == DigitRunEnd(e, i)
    IN  IF k > i /\ k <= Len(e) /\ e[k] = "."
        THEN DigitRunEnd(e, k + 1)
        ELSE k

\* the index after the match of \d*\.?\d+ that starts at i, or i if the
\* pattern does not match there
NumberMatchEnd(e, i) ==
    LET k == DigitRunEnd(e, i)
    IN  IF k + 1 <= Len(e) /\ e[k] = "." /\ e[k + 1] \in Digit
        THEN DigitRunEnd(e, k + 1)
        ELSE k

\* expression.match(/(\d*\.?\d+|[+\-*/().])/g): a decimal point that belongs
\* to no number becomes a token
RECURSIVE MatchWithPoint(_, _)
MatchWithPoint(e, i) ==
    IF i > Len(e) THEN <<>>
    ELSE LET n == NumberMatchEnd(e, i)
         IN  IF n > i THEN <<SubSeq(e, i, n - 1)>> \o MatchWithPoint(e, n)
             ELSE IF e[i] \in OperatorOrParen \cup {"."}
                  THEN <<<<e[i]>>>> \o MatchWithPoint(e, i + 1)
             ELSE MatchWithPoint(e, i + 1)

\* expression.match(/(\d*\.?\d+|[+\-*/()])/g) || [] from index i on
RECURSIVE Match(_, _)
Match(e, i) ==
    IF i > Len(e) THEN <<>>
    ELSE LET n == NumberMatchEnd(e, i)
         IN  IF n > i THEN <<SubSeq(e, i, n - 1)>> \o Match(e, n)
             ELSE IF e[i] \in OperatorOrParen THEN <<<<e[i]>>>> \o Match(e, i + 1)
             ELSE Match(e, i + 1)

\* /^\d*\.?\d+$/.test(token)
IsNumberToken(token) ==
    LET k == DigitRunEnd(token, 1)
    IN  \/ Len(token) >= 1 /\ k = Len(token) + 1
        \/ /\ k + 1 <= Len(token)
           /\ token[k] = "."
           /\ DigitRunEnd(token, k + 1) = Len(token) + 1

\* the integer written by the digits of s, other characters skipped
RECURSIVE DigitsValue(_, _)
DigitsValue(s, acc) ==
    IF s = <<>> THEN acc
    ELSE DigitsValue(Tail(s),
                     IF Head(s) \in Digit THEN 10 * acc + DigitValue(Head(s)) ELSE acc)

\* parseFloat(token) for a token that matches \d*\.?\d+
ParseFloat(token) ==
    LET k == DigitRunEnd(token, 1)
        fractionLen == IF k <= Len(token) THEN Len(token) - k ELSE 0
    IN  Rat(DigitsValue(token, 0), Pow10(fractionLen))

(***************************************************************************)
(* The engine: operator table, values on the stacks, outcome of a call.    *)
(***************************************************************************)
\* this.operators as the constructor builds it; the arrow functions are
\* named, Operation applies them
OperatorTable ==
    [sym \in {"+", "-", "*", "/"} |->
        CASE sym = "+" -> [precedence |-> 1, operation |-> "add"]
          [] sym = "-" -> [precedence |-> 1, operation |-> "subtract"]
          [] sym = "*" -> [precedence |-> 2, operation |-> "multiply"]
          [] sym = "/" -> [precedence |-> 2, operation |-> "divide"]]

\* an element of the output array: a number or an operator string
NumberItem(x) == [type |-> "number", value |-> x, symbol |-> ""]
StringItem(sym) == [type |-> "string", value |-> Zero, symbol |-> sym]

\* how a call ended: nothing yet, a returned number, or a thrown Error
NoOutcome == [kind |-> "none", value |-> Zero, message |-> ""]
Returned(x) == [kind |-> "returned", value |-> x, message |-> ""]
Thrown(msg) == [kind |-> "thrown", value |-> Zero, message |-> msg]

\* the operations with the zero test of '/' left out: a / 0 is Infinity,
\* written <<1, 0>>
OperationNoZeroCheck(name, a, b) ==
    CASE name = "add"      -> Returned(Rat(a[1] * b[2] + b[1] * a[2], a[2] * b[2]))
      [] name = "subtract" -> Returned(Rat(a[1] * b[2] - b[1] * a[2], a[2] * b[2]))
      [] name = "multiply" -> Returned(Rat(a[1] * b[1], a[2] * b[2]))
      [] name = "divide"   -> IF b = Zero THEN Returned(<<1, 0>>)
                              ELSE Returned(Rat(a[1] * b[2], a[2] * b[1]))

\* operation(a, b) of an operator descriptor
Operation(name, a, b) ==
    CASE name = "add"      -> Returned(Rat(a[1] * b[2] + b[1] * a[2], a[2] * b[2]))
      [] name = "subtract" -> Returned(Rat(a[1] * b[2] - b[1] * a[2], a[2] * b[2]))
      [] name = "multiply" -> Returned(Rat(a[1] * b[1], a[2] * b[2]))
      [] name = "divide"   -> IF b = Zero THEN Thrown("Division by zero")
                              ELSE Returned(Rat(a[1] * b[2], a[2] * b[1]))

Top(st) == st[Len(st)]
Pop(st) == SubSeq(st, 1, Len(st) - 1)

\* the local variables of one call of calculate, toRPN and evaluateRPN;
\* work counts the calls of push and pop the call has made on its arrays
NewFrame ==
    [pc |-> "idle", expression |-> <<>>, tokens |-> <<>>, ti |-> 1,
     output |-> <<>>, operatorStack |-> <<>>,
     rpn |-> <<>>, ri |-> 1, stack |-> <<>>, outcome |-> NoOutcome,
     work |-> 0]

Throw(f, msg) == [f EXCEPT !.pc = "done", !.outcome = Thrown(msg)]

(***************************************************************************)
(* calculate and toRPN.                                                    *)
(***************************************************************************)
\* calculate with output and operators kept from the call before instead of
\* declared anew
CalculateEnterStale(f, arg) ==
    LET e == ReplaceWhitespace(arg, 1)
    IN  IF ~ValidExpression(e)
        THEN Throw([f EXCEPT !.expression = e, !.work = 0],
                   "Invalid characters in expression")
        ELSE [f EXCEPT !.pc = "toRPN", !.expression = e, !.tokens = Match(e, 1),
                       !.ti = 1, !.outcome = NoOutcome, !.work = 0]

\* calculate up to the first token of toRPN: strip whitespace, validate,
\* then the declarations of toRPN
CalculateEnter(f, arg) ==
    LET e == ReplaceWhitespace(arg, 1)
    IN  IF ~ValidExpression(e)
        THEN Throw([f EXCEPT !.expression = e, !.work = 0],
                   "Invalid characters in expression")
        ELSE [f EXCEPT !.pc = "toRPN", !.expression = e, !.tokens = Match(e, 1),
                       !.ti = 1, !.output = <<>>, !.operatorStack = <<>>,
                       !.outcome = NoOutcome, !.work = 0]

\* the loop of ')' with the popped operators dropped instead of pushed to
\* the output
RECURSIVE PopUntilParenDiscarding(_, _)
PopUntilParenDiscarding(out, st) ==
    IF Len(st) > 0 /\ Top(st) # "("
    THEN PopUntilParenDiscarding(out, Pop(st))
    ELSE [output |-> out, operatorStack |-> st]

\* while (operators.length && top !== '(') output.push(operators.pop())
RECURSIVE PopUntilParen(_, _)
PopUntilParen(out, st) ==
    IF Len(st) > 0 /\ Top(st) # "("
    THEN PopUntilParen(Append(out, StringItem(Top(st))), Pop(st))
    ELSE [output |-> out, operatorStack |-> st]

\* the precedence loop with > in place of >=: equal precedence does not pop
RECURSIVE PopStrictlyHigherPrecedence(_, _, _, _)
PopStrictlyHigherPrecedence(ops, prec, out, st) ==
    IF /\ Len(st) > 0
       /\ Top(st) # "("
       /\ Top(st) \in DOMAIN ops
       /\ ops[Top(st)].precedence > prec
    THEN PopStrictlyHigherPrecedence(ops, prec, Append(out, StringItem(Top(st))),
                                     Pop(st))
    ELSE [output |-> out, operatorStack |-> st]

\* while (operators.length && top !== '(' &&
\*        this.operators[top]?.precedence >= currentOperator.precedence)
\*     output.push(operators.pop())
RECURSIVE PopHigherPrecedence(_, _, _, _)
PopHigherPrecedence(ops, prec, out, st) ==
    IF /\ Len(st) > 0
       /\ Top(st) # "("
       /\ Top(st) \in DOMAIN ops
       /\ ops[Top(st)].precedence >= prec
    THEN PopHigherPrecedence(ops, prec, Append(out, StringItem(Top(st))), Pop(st))
    ELSE [output |-> out, operatorStack |-> st]

\* one iteration of for (const token of tokens)
ToRPNToken(ops, f) ==
    LET token == f.tokens[f.ti]
        sym   == token[1]
    IN  IF IsNumberToken(token)
        THEN [f EXCEPT !.output = Append(@, NumberItem(ParseFloat(token))),
                       !.ti = @ + 1, !.work = @ + 1]
        ELSE IF sym = "("
        THEN [f EXCEPT !.operatorStack = Append(@, sym), !.ti = @ + 1,
                       !.work = @ + 1]
        ELSE IF sym = ")"
        THEN LET p == PopUntilParen(f.output, f.operatorStack)
                 w == 2 * (Len(p.output) - Len(f.output)) + 1
             IN  IF p.operatorStack = <<>>
                 THEN Throw([f EXCEPT !.output = p.output, !.operatorStack = <<>>,
                                      !.work = @ + w],
                            "Mismatched parentheses")
                 ELSE [f EXCEPT !.output = p.output,
                                !.operatorStack = Pop(p.operatorStack),
                                !.ti = @ + 1, !.work = @ + w]
        ELSE IF sym \notin DOMAIN ops
        THEN \* currentOperator is undefined: reading its precedence throws
             \* as soon as the loop condition gets that far
             IF Len(f.operatorStack) > 0 /\ Top(f.operatorStack) # "("
             THEN Throw(f, "TypeError")
             ELSE [f EXCEPT !.operatorStack = Append(@, sym), !.ti = @ + 1,
                            !.work = @ + 1]
        ELSE LET p == PopHigherPrecedence(ops, ops[sym].precedence,
                                          f.output, f.operatorStack)
                 w == 2 * (Len(p.output) - Len(f.output)) + 1
             IN  [f EXCEPT !.output = p.output,
                           !.operatorStack = Append(p.operatorStack, sym),
                           !.ti = @ + 1, !.work = @ + w]

\* the final loop without the test for '(': everything left goes to the
\* output
RECURSIVE PopRemainingUnchecked(_, _)
PopRemainingUnchecked(out, st) ==
    IF st = <<>> THEN [mismatched |-> FALSE, output |-> out, operatorStack |-> st]
    ELSE PopRemainingUnchecked(Append(out, StringItem(Top(st))), Pop(st))

\* while (operators.length) { pop; '(' throws; output.push }
RECURSIVE PopRemaining(_, _)
PopRemaining(out, st) ==
    IF st = <<>> THEN [mismatched |-> FALSE, output |-> out, operatorStack |-> st]
    ELSE IF Top(st) = "("
         THEN [mismatched |-> TRUE, output |-> out, operatorStack |-> Pop(st)]
         ELSE PopRemaining(Append(out, StringItem(Top(st))), Pop(st))

\* the end of toRPN with the output handed to evaluateRPN even when a '('
\* was left on the operator stack
ToRPNReturnUnchecked(f) ==
    LET p == PopRemaining(f.output, f.operatorStack)
    IN  [f EXCEPT !.output = p.output, !.operatorStack = p.operatorStack,
                  !.pc = "evaluateRPN", !.rpn = p.output, !.ri = 1,
                  !.stack = <<>>]

\* the end of toRPN and the declarations of evaluateRPN
ToRPNReturn(f) ==
    LET p == PopRemaining(f.output, f.operatorStack)
        w == 2 * (Len(p.output) - Len(f.output))
               + (IF p.mismatched THEN 1 ELSE 0)
        g == [f EXCEPT !.output = p.output, !.operatorStack = p.operatorStack,
                       !.work = @ + w]
    IN  IF p.mismatched THEN Throw(g, "Mismatched parentheses")
        ELSE [g EXCEPT !.pc = "evaluateRPN", !.rpn = p.output, !.ri = 1,
                       !.stack = <<>>]

(***************************************************************************)
(* evaluateRPN.                                                            *)
(***************************************************************************)
\* one iteration with only b tested for undefined; a missing a is taken as 0
EvaluateRPNTokenOneOperand(ops, f) ==
    LET token == f.rpn[f.ri]
        n     == Len(f.stack)
    IN  IF token.type = "number"
        THEN [f EXCEPT !.stack = Append(@, token.value), !.ri = @ + 1,
                       !.work = @ + 1]
        ELSE LET popped == IF n >= 2 THEN SubSeq(f.stack, 1, n - 2) ELSE <<>>
                 g      == [f EXCEPT !.stack = popped, !.work = @ + 2]
             IN  IF n < 1 THEN Throw(g, "Invalid expression")
                 ELSE IF token.symbol \notin DOMAIN ops
                 THEN Throw(g, "Invalid operator")
                 ELSE LET b == f.stack[n]
                          a == IF n >= 2 THEN f.stack[n - 1] ELSE Zero
                          r == Operation(ops[token.symbol].operation, a, b)
                      IN  IF r.kind = "thrown" THEN Throw(g, r.message)
                          ELSE [g EXCEPT !.stack = Append(popped, r.value),
                                         !.ri = @ + 1, !.work = @ + 1]

\* one iteration of for (const token of rpn)
EvaluateRPNToken(ops, f) ==
    LET token == f.rpn[f.ri]
        n     == Len(f.stack)
    IN  IF token.type = "number"
        THEN [f EXCEPT !.stack = Append(@, token.value), !.ri = @ + 1,
                       !.work = @ + 1]
        ELSE LET popped == IF n >= 2 THEN SubSeq(f.stack, 1, n - 2) ELSE <<>>
                 g      == [f EXCEPT !.stack = popped, !.work = @ + 2]
             IN  IF n < 2 THEN Throw(g, "Invalid expression")
                 ELSE IF token.symbol \notin DOMAIN ops
                 THEN Throw(g, "Invalid operator")
                 ELSE LET b == f.stack[n]
                          a == f.stack[n - 1]
                          r == Operation(ops[token.symbol].operation, a, b)
                      IN  IF r.kind = "thrown" THEN Throw(g, r.message)
                          ELSE [g EXCEPT !.stack = Append(popped, r.value),
                                         !.ri = @ + 1, !.work = @ + 1]

\* the end of evaluateRPN with a scan that starts over while the stack does
\* not hold exactly one value
EvaluateRPNReturnRescan(f) ==
    IF Len(f.stack) # 1 THEN [f EXCEPT !.ri = 1]
    ELSE [f EXCEPT !.pc = "done", !.outcome = Returned(FormatResult(f.stack[1]))]

\* the end of evaluateRPN
EvaluateRPNReturn(f) ==
    IF Len(f.stack) # 1 THEN Throw(f, "Invalid expression")
    ELSE [f EXCEPT !.pc = "done", !.outcome = Returned(FormatResult(f.stack[1]))]

\* the next step of a call in progress
Step(ops, f) ==
    CASE f.pc = "toRPN" /\ f.ti <= Len(f.tokens)    -> ToRPNToken(ops, f)
      [] f.pc = "toRPN" /\ f.ti > Len(f.tokens)     -> ToRPNReturn(f)
      [] f.pc = "evaluateRPN" /\ f.ri <= Len(f.rpn) -> EvaluateRPNToken(ops, f)
      [] f.pc = "evaluateRPN" /\ f.ri > Len(f.rpn)  -> EvaluateRPNReturn(f)

RECURSIVE Run(_, _)
Run(ops, f) == IF f.pc = "done" THEN f ELSE Run(ops, Step(ops, f))

\* engine.calculate(arg) on an engine whose table is ops, run to its end
CalculateOutcome(ops, arg) == Run(ops, CalculateEnter(NewFrame, arg)).outcome

(***************************************************************************)
(* The evaluator of script.js: safeCalculate, and the formatting that      *)
(* calculateResult applies to what it returns.                             *)
(***************************************************************************)
\* const precedence
precedence == [sym \in {"+", "-", "*", "/"} |-> IF sym \in {"*", "/"} THEN 2 ELSE 1]

\* while (operators.length && top !== '(') output.push(operators.pop())
RECURSIVE safeCalculateCloseParen(_, _)
safeCalculateCloseParen(out, st) ==
    IF Len(st) > 0 /\ Top(st) # "("
    THEN safeCalculateCloseParen(Append(out, StringItem(Top(st))), Pop(st))
    ELSE [output |-> out, operators |-> st]

\* the loop of an operator token with > in place of >=
RECURSIVE safeCalculatePopStrict(_, _, _)
safeCalculatePopStrict(token, out, st) ==
    IF /\ Len(st) > 0
       /\ Top(st) # "("
       /\ precedence[Top(st)] > precedence[token]
    THEN safeCalculatePopStrict(token, Append(out, StringItem(Top(st))), Pop(st))
    ELSE [output |-> out, operators |-> st]

\* while (operators.length && top !== '(' &&
\*        precedence[top] >= precedence[token]) output.push(operators.pop())
RECURSIVE safeCalculatePop(_, _, _)
safeCalculatePop(token, out, st) ==
    IF /\ Len(st) > 0
       /\ Top(st) # "("
       /\ precedence[Top(st)] >= precedence[token]
    THEN safeCalculatePop(token, Append(out, StringItem(Top(st))), Pop(st))
    ELSE [output |-> out, operators |-> st]

\* for (const token of tokens), from token i on
RECURSIVE safeCalculateTokens(_, _, _, _)
safeCalculateTokens(tokens, i, out, st) ==
    IF i > Len(tokens) THEN [thrown |-> FALSE, output |-> out, operators |-> st]
    ELSE LET token == tokens[i]
         IN  IF IsNumberToken(token)
             THEN safeCalculateTokens(tokens, i + 1,
                                      Append(out, NumberItem(ParseFloat(token))), st)
             ELSE IF token = <<"(">>
             THEN safeCalculateTokens(tokens, i + 1, out, Append(st, "("))
             ELSE IF token = <<")">>
             THEN LET p == safeCalculateCloseParen(out, st)
                  IN  IF p.operators = <<>>
                      THEN [thrown |-> TRUE, output |-> p.output, operators |-> <<>>]
                      ELSE safeCalculateTokens(tokens, i + 1, p.output,
                                               Pop(p.operators))
             ELSE LET p == safeCalculatePop(token[1], out, st)
                  IN  safeCalculateTokens(tokens, i + 1, p.output,
                                          Append(p.operators, token[1]))

\* while (operators.length) { pop; '(' throws; output.push }
RECURSIVE safeCalculateDrain(_, _)
safeCalculateDrain(out, st) ==
    IF st = <<>> THEN [thrown |-> FALSE, output |-> out, operators |-> st]
    ELSE IF Top(st) = "("
         THEN [thrown |-> TRUE, output |-> out, operators |-> Pop(st)]
         ELSE safeCalculateDrain(Append(out, StringItem(Top(st))), Pop(st))

\* switch (token)
safeCalculateSwitch(token, a, b) ==
    CASE token = "+" -> Returned(Rat(a[1] * b[2] + b[1] * a[2], a[2] * b[2]))
      [] token = "-" -> Returned(Rat(a[1] * b[2] - b[1] * a[2], a[2] * b[2]))
      [] token = "*" -> Returned(Rat(a[1] * b[1], a[2] * b[2]))
      [] token = "/" -> IF b = Zero THEN Thrown("Division by zero")
                        ELSE Returned(Rat(a[1] * b[2], a[2] * b[1]))

\* for (const token of output), from entry i on, and the return
RECURSIVE safeCalculateEvaluate(_, _, _)
safeCalculateEvaluate(output, i, stack) ==
    IF i > Len(output)
    THEN IF Len(stack) # 1 THEN Thrown("Invalid expression")
         ELSE Returned(stack[1])
    ELSE LET token == output[i]
             n     == Len(stack)
         IN  IF token.type = "number"
             THEN safeCalculateEvaluate(output, i + 1, Append(stack, token.value))
             ELSE IF n < 2 THEN Thrown("Invalid expression")
             ELSE LET r == safeCalculateSwitch(token.symbol, stack[n - 1], stack[n])
                  IN  IF r.kind = "thrown" THEN r
                      ELSE safeCalculateEvaluate(
                               output, i + 1,
                               Append(SubSeq(stack, 1, n - 2), r.value))

\* safeCalculate(expression)
safeCalculate(arg) ==
    LET e == ReplaceWhitespace(arg, 1)
    IN  IF ~ValidExpression(e) THEN Thrown("Invalid characters in expression")
        ELSE LET p == safeCalculateTokens(Match(e, 1), 1, <<>>, <<>>)
                 d == safeCalculateDrain(p.output, p.operators)
             IN  IF p.thrown \/ d.thrown THEN Thrown("Mismatched parentheses")
                 ELSE safeCalculateEvaluate(d.output, 1, <<>>)

\* the result shown without the rounding
unformattedResult(result) == result

\* const formattedResult = Number.isInteger(result) ? result
\*                                                   : parseFloat(result.toFixed(8))
formattedResult(result) ==
    IF IsInteger(result) THEN result ELSE ToFixedParsed(result)

\* what calculateResult takes from safeCalculate(arg): the formatted result,
\* or the Error its catch block receives
calculateResultOutcome(arg) ==
    LET r == safeCalculate(arg)
    IN  IF r.kind = "returned" THEN Returned(formattedResult(r.value)) ELSE r

(***************************************************************************)
(* The inputs handed to calculate.                                         *)
(***************************************************************************)
\* all strings over S of length at most n
StringsUpTo(S, n) == UNION {[1..k -> S] : k \in 0..n}

\* the input alphabet: two digits, the operators and parentheses, the
\* decimal point, a whitespace character and a character that is not allowed
InputChars == {"0", "2", "+", "-", "*", "/", "(", ")", ".", " ", "&"}

\* an alphabet for longer inputs
CoreChars == {"2", "+", "(", ")", "."}

\* operands and operators of the generated well-formed expressions
Operands == {<<"2">>, <<"3">>}
BinaryOperators == {"+", "-", "*", "/"}

\* the well-formed expressions with exactly n operators, a compound operand
\* written with or without parentheses
RECURSIVE Expressions(_)
Expressions(n) ==
    IF n = 0 THEN Operands
    ELSE LET Operand(k) ==
                 IF k = 0 THEN Expressions(0)
                 ELSE Expressions(k)
                        \cup {<<"(">> \o e \o <<")">> : e \in Expressions(k)}
         IN  UNION {{l \o <<o>> \o r : l \in Operand(k), r \in Operand(n - 1 - k),
                                       o \in BinaryOperators} : k \in 0..(n - 1)}

\* inputs the specification of the engine names
Examples ==
    {<<"0", ".", "1", "+", "0", ".", "2">>, <<"(", "5", "/", "0">>,
     <<"2", "+", "+", "(">>, <<"5", ".">>, <<"5", ".", "+", "3">>,
     <<".", "5">>, <<"8", "-", "3", "-", "2">>}

Inputs ==
    StringsUpTo(InputChars, MaxLen)
      \cup StringsUpTo(CoreChars, MaxCoreLen)
      \cup UNION {Expressions(n) : n \in 0..MaxOps}
      \cup Examples

(***************************************************************************)
(* State.                                                                  *)
(***************************************************************************)
VARIABLES
    operators,    \* this.operators of the engine
    expression,   \* the argument of the current call of calculate
    frame,        \* the local variables and the position of that call
    previous,     \* the argument and outcome of the call before a
                  \* whitespace edit of the argument
    other,        \* a second call of calculate on the same engine: its
                  \* argument and its local variables
    localStorage, \* the items of window.localStorage
    memory,       \* the Memory object of the session
    themeManager, \* the ThemeManager object of the session
    called,       \* the last method called on the session's objects and
                  \* how it ended
    calculator,   \* currentInput and lastResult of the Calculator object
    display,      \* the Display object, its elements and pending timers
    script        \* the globals and the display element of script.js

vars == <<operators, expression, frame, previous, other, localStorage, memory,
          themeManager, called, calculator, display, script>>

\* the state outside the first caller's call of calculate
outside == <<other, localStorage, memory, themeManager, called, calculator,
            display, script>>

\* the state of the front ends
frontEnds == <<calculator, display, script>>

NoPrevious == [known |-> FALSE, expression |-> <<>>, outcome |-> NoOutcome]

NoOther == [expression |-> <<>>, frame |-> NewFrame]

(***************************************************************************)
(* The objects of a session (one load of the page): Memory                 *)
(* (src/unnamed/part_002) and ThemeManager, both backed by localStorage.   *)
(***************************************************************************)
\* largest magnitude of the memory value
MaxMemory == 2

\* what a method that is not calculate hands back
Undefined == [kind |-> "undefined", value |-> Zero, message |-> ""]
Null == [kind |-> "null", value |-> Zero, message |-> ""]
ReturnedText(t) == [kind |-> "text", value |-> Zero, message |-> t]

\* localStorage of a browser that never ran the calculator
EmptyStorage ==
    [calculatorMemory |-> [present |-> FALSE, text |-> <<>>],
     calculatorTheme  |-> [present |-> FALSE, text |-> ""]]

DigitChar(d) == CHOOSE c \in Digit : DigitValue(c) = d

RECURSIVE NaturalToString(_)
NaturalToString(n) ==
    IF n < 10 THEN <<DigitChar(n)>>
    ELSE Append(NaturalToString(n \div 10), DigitChar(n % 10))

\* the decimal digits of r/d (0 <= r < d, d a divisor of a power of ten)
RECURSIVE FractionToString(_, _)
FractionToString(r, d) ==
    IF r = 0 THEN <<>>
    ELSE <<DigitChar((10 * r) \div d)>> \o FractionToString((10 * r) % d, d)

\* Number.prototype.toString() of a number with finitely many decimals
NumberToString(x) ==
    LET m    == Abs(x[1])
        frac == FractionToString(m % x[2], x[2])
    IN  (IF x[1] < 0 THEN <<"-">> ELSE <<>>)
          \o NaturalToString(m \div x[2])
          \o (IF frac = <<>> THEN <<>> ELSE <<".">> \o frac)

\* parseFloat(text) of a stored text: an optional sign, then a number
ParseFloatSigned(text) ==
    IF text # <<>> /\ Head(text) = "-"
    THEN LET x == ParseFloat(Tail(text)) IN <<-x[1], x[2]>>
    ELSE ParseFloat(text)

MemoryResult(m, ls, out) == [memory |-> m, localStorage |-> ls, outcome |-> out]

\* Memory.save
MemorySave(m, ls) ==
    [ls EXCEPT !.calculatorMemory =
                   [present |-> TRUE, text |-> NumberToString(m.value)]]

\* new Memory(): the constructor and initialize
NewMemory(ls) ==
    IF ls.calculatorMemory.present
    THEN [value |-> ParseFloatSigned(ls.calculatorMemory.text)]
    ELSE [value |-> Zero]

\* Memory.add
MemoryAdd(m, ls, value) ==
    LET n == [m EXCEPT !.value = Operation("add", @, value).value]
    IN  MemoryResult(n, MemorySave(n, ls), Undefined)

\* Memory.subtract without the call of save
MemorySubtractUnsaved(m, ls, value) ==
    LET n == [m EXCEPT !.value = Operation("subtract", @, value).value]
    IN  MemoryResult(n, ls, Undefined)

\* Memory.subtract
MemorySubtract(m, ls, value) ==
    LET n == [m EXCEPT !.value = Operation("subtract", @, value).value]
    IN  MemoryResult(n, MemorySave(n, ls), Undefined)

\* Memory.recall
MemoryRecall(m, ls) ==
    MemoryResult(m, ls, IF m.value # Zero THEN Returned(m.value) ELSE Null)

\* Memory.clear
MemoryClear(m, ls) ==
    LET n == [m EXCEPT !.value = Zero]
    IN  MemoryResult(n, MemorySave(n, ls), Undefined)

\* the keys of this.themes as the constructor of ThemeManager builds it
BuiltInThemes == {"light", "dark"}

\* a property name every object inherits from Object.prototype
InheritedNames == {"constructor"}

\* the names passed to the methods of ThemeManager
ThemeNames == BuiltInThemes \cup {"solar"} \cup InheritedNames

\* this.themes[name] is truthy: an own key of the table (its value is a
\* theme object), or a name the table inherits (its value is a function)
HasTheme(tm, name) == name \in tm.themes \/ name \in InheritedNames

\* the methods ThemeManager defines
ThemeManagerMethods ==
    {"initialize", "setTheme", "toggleTheme", "getCurrentTheme",
     "getAvailableThemes", "addTheme", "removeTheme"}

ThemeResult(tm, ls, out) ==
    [themeManager |-> tm, localStorage |-> ls, outcome |-> out]

\* ThemeManager.setTheme
SetTheme(tm, ls, themeName) ==
    IF ~HasTheme(tm, themeName)
    THEN ThemeResult(tm, ls, Thrown("Theme does not exist"))
    ELSE ThemeResult([tm EXCEPT !.currentTheme = themeName],
                     [ls EXCEPT !.calculatorTheme =
                                    [present |-> TRUE, text |-> themeName]],
                     Undefined)

\* ThemeManager.toggleTheme
ToggleTheme(tm, ls) ==
    LET newTheme == IF tm.currentTheme = "light" THEN "dark" ELSE "light"
        r        == SetTheme(tm, ls, newTheme)
    IN  IF r.outcome.kind = "thrown" THEN r
        ELSE [r EXCEPT !.outcome = ReturnedText(newTheme)]

\* ThemeManager.addTheme
AddTheme(tm, ls, name) ==
    IF HasTheme(tm, name)
    THEN ThemeResult(tm, ls, Thrown("Theme already exists"))
    ELSE ThemeResult([tm EXCEPT !.themes = @ \cup {name}], ls, Undefined)

\* ThemeManager.removeTheme
RemoveTheme(tm, ls, name) ==
    IF name = tm.currentTheme
    THEN ThemeResult(tm, ls, Thrown("Cannot remove the current theme"))
    ELSE IF ~HasTheme(tm, name)
    THEN ThemeResult(tm, ls, Thrown("Theme does not exist"))
    ELSE ThemeResult([tm EXCEPT !.themes = @ \ {name}], ls, Undefined)

\* new ThemeManager(): the constructor and initialize
NewThemeManager(ls) ==
    LET tm         == [themes |-> BuiltInThemes, currentTheme |-> "light"]
        savedTheme == ls.calculatorTheme
    IN  IF savedTheme.present /\ savedTheme.text # ""
           /\ HasTheme(tm, savedTheme.text)
        THEN SetTheme(tm, ls, savedTheme.text)
        ELSE SetTheme(tm, ls, "light")

\* Calculator.toggleTheme: this.themeManager.toggle()
CalculatorToggleTheme(tm, ls) ==
    IF "toggle" \in ThemeManagerMethods
    THEN ToggleTheme(tm, ls)
    ELSE ThemeResult(tm, ls, Thrown("TypeError"))

(***************************************************************************)
(* The front ends: the Display object with the timers it arms               *)
(* (src/src/js/modules/Display.js), the Calculator object                   *)
(* (src/src/js/modules/Calculator.js) and the page script (src/script.js).  *)
(***************************************************************************)
\* the number of timers armed in one session
MaxTimers == 3

\* the number of failed calculations of one session of the controllers
MaxErrors == 1

\* what the display element shows: typed text or a number, or a message
DisplayText(chars) == [message |-> "", text |-> chars]
DisplayMessage(m) == [message |-> m, text |-> <<>>]

\* the delays of the two setTimeout calls of Display, in milliseconds
ErrorDelay == 2000
NotificationDelay == 1000

\* a pending timer: the call of setTimeout that armed it (counted from 1)
\* and what its callback removes
ErrorTimer(id) ==
    [id |-> id, delay |-> ErrorDelay, removes |-> "error", target |-> 0]
NotificationTimer(id, element) ==
    [id |-> id, delay |-> NotificationDelay, removes |-> "notification",
     target |-> element]

\* new Display() after initialize: the display element, the
\* .memory-notification elements of the document, the timers that are
\* pending; raisedBy is the call of showError that last set the error class
NewDisplay ==
    [value |-> DisplayText(<<>>), error |-> FALSE, raisedBy |-> 0,
     notifications |-> {}, notificationTimeout |-> 0,
     timers |-> {}, nextTimer |-> 1]

\* Display.update
DisplayUpdate(d, value) == [d EXCEPT !.value = value, !.error = FALSE]

\* Display.clear
DisplayClear(d) == [d EXCEPT !.value = DisplayText(<<>>), !.error = FALSE]

\* Display.showError
DisplayShowError(d, message) ==
    [d EXCEPT !.value = DisplayMessage(message), !.error = TRUE,
              !.raisedBy = d.nextTimer,
              !.timers = @ \cup {ErrorTimer(d.nextTimer)},
              !.nextTimer = @ + 1]

\* Display.clearNotification: clearTimeout of the stored timeout, and the
\* first .memory-notification of the document removed
DisplayClearNotification(d) ==
    LET first == {n \in d.notifications :
                     \A m \in d.notifications : n.element <= m.element}
    IN  [d EXCEPT !.timers = IF d.notificationTimeout # 0
                             THEN {t \in @ : t.id # d.notificationTimeout}
                             ELSE @,
                  !.notificationTimeout = IF @ # 0 THEN 0 ELSE @,
                  !.notifications = @ \ first]

\* Display.showNotification without the call of clearNotification
DisplayShowNotificationUncleared(d, message) ==
    [d EXCEPT !.notifications =
                  @ \cup {[element |-> d.nextTimer, text |-> message]},
              !.timers = @ \cup {NotificationTimer(d.nextTimer, d.nextTimer)},
              !.notificationTimeout = d.nextTimer,
              !.nextTimer = @ + 1]

\* Display.showNotification
DisplayShowNotification(d, message) ==
    LET c == DisplayClearNotification(d)
    IN  [c EXCEPT !.notifications =
                      @ \cup {[element |-> c.nextTimer, text |-> message]},
                  !.timers = @ \cup {NotificationTimer(c.nextTimer, c.nextTimer)},
                  !.notificationTimeout = c.nextTimer,
                  !.nextTimer = @ + 1]

\* a pending timer is due before every timer armed after it with the same
\* or a longer delay
MayExpire(d, t) ==
    /\ t \in d.timers
    /\ \A u \in d.timers : u.id < t.id => u.delay > t.delay

\* the callback of an expired timer
TimerCallback(d, t) ==
    IF t.removes = "error"
    THEN [d EXCEPT !.error = FALSE, !.timers = @ \ {t}]
    ELSE [d EXCEPT !.notifications = {n \in @ : n.element # t.target},
                   !.timers = @ \ {t}]

\* the values appendValue does not take as the start of a new calculation
ContinuingValues == {"+", "-", "*", "/", "(", ")"}

\* the values appendValue treats as operators
OperatorValues == {"+", "-", "*", "/"}

\* new Calculator(): currentInput and lastResult
NewCalculator == [currentInput |-> <<>>, lastResult |-> Null]

CalculatorResult(c, d) == [calculator |-> c, display |-> d]

\* Calculator.appendValue without the removal of a trailing operator
CalculatorAppendValueUntrimmed(c, d, value) ==
    LET fresh == IF c.lastResult # Null /\ value \notin ContinuingValues
                 THEN [currentInput |-> <<>>, lastResult |-> Null]
                 ELSE c
        input == fresh.currentInput
        typed == Append(input, value)
    IN  IF value = "." /\ \E i \in 1..Len(input) : input[i] = "."
        THEN CalculatorResult(fresh, d)
        ELSE CalculatorResult([fresh EXCEPT !.currentInput = typed],
                              DisplayUpdate(d, DisplayText(typed)))

\* Calculator.appendValue
CalculatorAppendValue(c, d, value) ==
    LET fresh   == IF c.lastResult # Null /\ value \notin ContinuingValues
                   THEN [currentInput |-> <<>>, lastResult |-> Null]
                   ELSE c
        input   == fresh.currentInput
        trimmed == IF /\ value \in OperatorValues
                      /\ input # <<>>
                      /\ input[Len(input)] \in OperatorValues
                   THEN SubSeq(input, 1, Len(input) - 1)
                   ELSE input
        typed   == Append(trimmed, value)
    IN  IF value = "." /\ \E i \in 1..Len(input) : input[i] = "."
        THEN CalculatorResult(fresh, d)
        ELSE CalculatorResult([fresh EXCEPT !.currentInput = typed],
                              DisplayUpdate(d, DisplayText(typed)))

\* Calculator.clear
CalculatorClear(c, d) ==
    CalculatorResult([currentInput |-> <<>>, lastResult |-> Null], DisplayClear(d))

\* Calculator.backspace
CalculatorBackspace(c, d) ==
    LET input == SubSeq(c.currentInput, 1, Len(c.currentInput) - 1)
    IN  CalculatorResult([c EXCEPT !.currentInput = input],
                         DisplayUpdate(d, DisplayText(input)))

\* Calculator.calculate with lastResult reset in the catch block
CalculatorCalculateForgetting(c, d, ops) ==
    IF c.currentInput = <<>> THEN CalculatorResult(c, d)
    ELSE LET result == CalculateOutcome(ops, c.currentInput)
         IN  IF result.kind = "returned"
             THEN CalculatorResult(
                      [currentInput |-> NumberToString(result.value),
                       lastResult |-> result],
                      DisplayUpdate(d, DisplayText(NumberToString(result.value))))
             ELSE CalculatorResult([currentInput |-> <<>>, lastResult |-> Null],
                                   DisplayShowError(d, result.message))

\* Calculator.calculate
CalculatorCalculate(c, d, ops) ==
    IF c.currentInput = <<>> THEN CalculatorResult(c, d)
    ELSE LET result == CalculateOutcome(ops, c.currentInput)
         IN  IF result.kind = "returned"
             THEN CalculatorResult(
                      [currentInput |-> NumberToString(result.value),
                       lastResult |-> result],
                      DisplayUpdate(d, DisplayText(NumberToString(result.value))))
             ELSE CalculatorResult([c EXCEPT !.currentInput = <<>>],
                                   DisplayShowError(d, result.message))

\* Calculator.memoryRecall
CalculatorMemoryRecall(c, d, m, ls) ==
    LET value == MemoryRecall(m, ls).outcome
    IN  IF value # Null
        THEN CalculatorResult(
                 [c EXCEPT !.currentInput = NumberToString(value.value)],
                 DisplayUpdate(d, DisplayText(NumberToString(value.value))))
        ELSE CalculatorResult(c, d)

\* the page of script.js after it is loaded: its globals and the display
\* element; evaluated is what a run of the evaluator alone has given
NewScript ==
    [currentInput |-> <<>>, lastResult |-> Null, memory |-> Zero,
     display |-> [value |-> DisplayText(<<>>), error |-> FALSE],
     evaluated |-> NoOutcome]

\* appendValue of script.js
appendValue(s, value) ==
    LET fresh   == IF s.lastResult # Null /\ value \notin ContinuingValues
                   THEN [s EXCEPT !.currentInput = <<>>, !.lastResult = Null]
                   ELSE s
        input   == fresh.currentInput
        trimmed == IF /\ value \in OperatorValues
                      /\ input # <<>>
                      /\ input[Len(input)] \in OperatorValues
                   THEN SubSeq(input, 1, Len(input) - 1)
                   ELSE input
        typed   == Append(trimmed, value)
    IN  IF value = "." /\ \E i \in 1..Len(input) : input[i] = "."
        THEN fresh
        ELSE [fresh EXCEPT !.currentInput = typed,
                           !.display = [value |-> DisplayText(typed),
                                        error |-> FALSE]]

\* clearDisplay
clearDisplay(s) ==
    [s EXCEPT !.currentInput = <<>>,
              !.display = [value |-> DisplayText(<<>>), error |-> FALSE]]

\* backspace of script.js
backspace(s) ==
    LET input == SubSeq(s.currentInput, 1, Len(s.currentInput) - 1)
    IN  [s EXCEPT !.currentInput = input,
                  !.display = [value |-> DisplayText(input), error |-> FALSE]]

\* calculateResult
calculateResult(s) ==
    IF s.currentInput = <<>> THEN s
    ELSE LET result == calculateResultOutcome(s.currentInput)
         IN  IF result.kind = "returned"
             THEN [s EXCEPT !.display =
                                [value |-> DisplayText(NumberToString(result.value)),
                                 error |-> FALSE],
                            !.lastResult = result,
                            !.currentInput = NumberToString(result.value)]
             ELSE [s EXCEPT !.display = [value |-> DisplayMessage(result.message),
                                         error |-> TRUE],
                            !.currentInput = <<>>]

\* memoryRecall of script.js
memoryRecall(s) ==
    IF s.memory # Zero
    THEN [s EXCEPT !.currentInput = NumberToString(s.memory),
                   !.display.value = DisplayText(NumberToString(s.memory))]
    ELSE s

\* new Calculator() on the given storage: the Memory and the ThemeManager
\* it creates
NewSession(ls) ==
    LET t == NewThemeManager(ls)
    IN  [memory |-> NewMemory(ls), themeManager |-> t.themeManager,
         localStorage |-> t.localStorage]

\* the first load of the page
FirstSession ==
    /\ localStorage = NewSession(EmptyStorage).localStorage
    /\ memory = NewSession(EmptyStorage).memory
    /\ themeManager = NewSession(EmptyStorage).themeManager
    /\ called = [method |-> "constructor", outcome |-> Undefined]
    /\ calculator = NewCalculator
    /\ display = NewDisplay
    /\ script = NewScript

\* new CalculatorEngine(), and the string a caller is about to pass
Init ==
    /\ operators = OperatorTable
    /\ expression \in Inputs
    /\ frame = NewFrame
    /\ previous = NoPrevious
    /\ other = NoOther
    /\ FirstSession

\* engine.calculate(expression) is entered
Calculate ==
    /\ frame.pc = "idle"
    /\ frame' = CalculateEnter(frame, expression)
    /\ UNCHANGED <<operators, expression, previous>>
    /\ UNCHANGED outside

ToRPNTokenStep ==
    /\ frame.pc = "toRPN"
    /\ frame.ti <= Len(frame.tokens)
    /\ frame' = ToRPNToken(operators, frame)
    /\ UNCHANGED <<operators, expression, previous>>
    /\ UNCHANGED outside

ToRPNReturnStep ==
    /\ frame.pc = "toRPN"
    /\ frame.ti > Len(frame.tokens)
    /\ frame' = ToRPNReturn(frame)
    /\ UNCHANGED <<operators, expression, previous>>
    /\ UNCHANGED outside

EvaluateRPNTokenStep ==
    /\ frame.pc = "evaluateRPN"
    /\ frame.ri <= Len(frame.rpn)
    /\ frame' = EvaluateRPNToken(operators, frame)
    /\ UNCHANGED <<operators, expression, previous>>
    /\ UNCHANGED outside

EvaluateRPNReturnStep ==
    /\ frame.pc = "evaluateRPN"
    /\ frame.ri > Len(frame.rpn)
    /\ frame' = EvaluateRPNReturn(frame)
    /\ UNCHANGED <<operators, expression, previous>>
    /\ UNCHANGED outside

Next ==
    \/ Calculate
    \/ ToRPNTokenStep
    \/ ToRPNReturnStep
    \/ EvaluateRPNTokenStep
    \/ EvaluateRPNReturnStep

Spec == Init /\ [][Next]_vars

(***************************************************************************)
(* Repeated calls on one engine.  After a call has ended the caller edits  *)
(* the string and calls again; the locals of the ended call are garbage    *)
(* until the new call declares them again.                                 *)
(***************************************************************************)
SeqInputs == StringsUpTo(InputChars, MaxSeqLen)

InitCalls ==
    /\ operators = OperatorTable
    /\ expression = <<>>
    /\ frame = NewFrame
    /\ previous = NoPrevious
    /\ other = NoOther
    /\ FirstSession

Ended == [known |-> TRUE, expression |-> expression, outcome |-> frame.outcome]

\* the caller will pass the same string once more
CallAgain ==
    /\ frame.pc = "done"
    /\ frame' = [frame EXCEPT !.pc = "idle"]
    /\ previous' = Ended
    /\ UNCHANGED <<operators, expression>>
    /\ UNCHANGED outside

\* the caller will pass the string with one more character at its end
AppendChar ==
    /\ frame.pc = "done"
    /\ Len(expression) < MaxSeqLen
    /\ \E c \in InputChars : expression' = Append(expression, c)
    /\ frame' = [frame EXCEPT !.pc = "idle"]
    /\ previous' = NoPrevious
    /\ UNCHANGED operators
    /\ UNCHANGED outside

\* the caller will pass the string without its last character
DropChar ==
    /\ frame.pc = "done"
    /\ Len(expression) > 0
    /\ expression' = SubSeq(expression, 1, Len(expression) - 1)
    /\ frame' = [frame EXCEPT !.pc = "idle"]
    /\ previous' = NoPrevious
    /\ UNCHANGED operators
    /\ UNCHANGED outside

\* the caller will pass the string with a whitespace character inserted
InsertWhitespace ==
    /\ frame.pc = "done"
    /\ Len(expression) < MaxSeqLen
    /\ \E i \in 0..Len(expression) :
          expression' = SubSeq(expression, 1, i) \o <<" ">>
                          \o SubSeq(expression, i + 1, Len(expression))
    /\ frame' = [frame EXCEPT !.pc = "idle"]
    /\ previous' = Ended
    /\ UNCHANGED operators
    /\ UNCHANGED outside

\* the caller will pass the string with a whitespace character deleted
DeleteWhitespace ==
    /\ frame.pc = "done"
    /\ \E i \in 1..Len(expression) :
          /\ expression[i] \in Whitespace
          /\ expression' = SubSeq(expression, 1, i - 1)
                             \o SubSeq(expression, i + 1, Len(expression))
    /\ frame' = [frame EXCEPT !.pc = "idle"]
    /\ previous' = Ended
    /\ UNCHANGED operators
    /\ UNCHANGED outside

NextCalls ==
    \/ Next
    \/ CallAgain
    \/ AppendChar
    \/ DropChar
    \/ InsertWhitespace
    \/ DeleteWhitespace

SpecCalls == InitCalls /\ [][NextCalls]_vars

(***************************************************************************)
(* Two calls of calculate in progress at once on one engine, their steps   *)
(* interleaved in any order.  output, operators and stack are declared by  *)
(* toRPN and evaluateRPN in each call; this.operators is the one object    *)
(* both calls reach.                                                       *)
(***************************************************************************)
MaxConcurrentLen == 3

ConcurrentChars == {"2", "0", "+", "/", "(", ")"}

\* the arguments of the second call: a value, a division by zero, a
\* missing operand and an unclosed parenthesis
OtherInputs ==
    {<<"2", "+", "3">>, <<"(", "2", "/", "0", ")">>, <<"2", "*">>, <<"(", "3">>}

InitConcurrent ==
    /\ operators = OperatorTable
    /\ expression \in StringsUpTo(ConcurrentChars, MaxConcurrentLen)
    /\ frame = NewFrame
    /\ previous = NoPrevious
    /\ other \in [expression : OtherInputs, frame : {NewFrame}]
    /\ FirstSession

\* the second caller enters engine.calculate(other.expression)
OtherCalculate ==
    /\ other.frame.pc = "idle"
    /\ other' = [other EXCEPT !.frame = CalculateEnter(@, other.expression)]
    /\ UNCHANGED <<operators, expression, frame, previous>>
    /\ UNCHANGED <<localStorage, memory, themeManager, called>>
    /\ UNCHANGED frontEnds

\* the next step of the second call with stack a field of the engine
\* instead of a local of evaluateRPN
OtherStepSharedStack ==
    /\ other.frame.pc \in {"toRPN", "evaluateRPN"}
    /\ LET g == Step(operators, [other.frame EXCEPT !.stack = frame.stack])
       IN  /\ other' = [other EXCEPT !.frame = g]
           /\ frame' = [frame EXCEPT !.stack = g.stack]
    /\ UNCHANGED <<operators, expression, previous>>
    /\ UNCHANGED <<localStorage, memory, themeManager, called>>
    /\ UNCHANGED frontEnds

\* the next step of the second call
OtherStep ==
    /\ other.frame.pc \in {"toRPN", "evaluateRPN"}
    /\ other' = [other EXCEPT !.frame = Step(operators, @)]
    /\ UNCHANGED <<operators, expression, frame, previous>>
    /\ UNCHANGED <<localStorage, memory, themeManager, called>>
    /\ UNCHANGED frontEnds

NextConcurrent ==
    \/ Next
    \/ OtherCalculate
    \/ OtherStep

SpecConcurrent == InitConcurrent /\ [][NextConcurrent]_vars

(***************************************************************************)
(* Sessions.  The methods of the session's Memory and ThemeManager are     *)
(* called in any order; a reload of the page ends the session and builds   *)
(* new objects on the localStorage the old ones left.                      *)
(***************************************************************************)
\* the variables of the engine and its callers
engine == <<operators, expression, frame, previous, other>>

\* the values handed to Memory.add and Memory.subtract
MemoryOperands == {<<1, 1>>, <<1, 2>>, <<5, 4>>}

InRange(x) == Abs(x[1]) <= MaxMemory * x[2]

InitSession ==
    /\ operators = OperatorTable
    /\ expression = <<>>
    /\ frame = NewFrame
    /\ previous = NoPrevious
    /\ other = NoOther
    /\ FirstSession

\* the methods of Memory, called with values that keep the memory in range
CallMemoryAdd ==
    \E value \in MemoryOperands :
        LET r == MemoryAdd(memory, localStorage, value)
        IN  /\ InRange(r.memory.value)
            /\ memory' = r.memory
            /\ localStorage' = r.localStorage
            /\ called' = [method |-> "Memory.add", outcome |-> r.outcome]
            /\ UNCHANGED themeManager
            /\ UNCHANGED engine
            /\ UNCHANGED frontEnds

CallMemorySubtract ==
    \E value \in MemoryOperands :
        LET r == MemorySubtract(memory, localStorage, value)
        IN  /\ InRange(r.memory.value)
            /\ memory' = r.memory
            /\ localStorage' = r.localStorage
            /\ called' = [method |-> "Memory.subtract", outcome |-> r.outcome]
            /\ UNCHANGED themeManager
            /\ UNCHANGED engine
            /\ UNCHANGED frontEnds

CallMemoryRecall ==
    LET r == MemoryRecall(memory, localStorage)
    IN  /\ InRange(r.memory.value)
        /\ memory' = r.memory
        /\ localStorage' = r.localStorage
        /\ called' = [method |-> "Memory.recall", outcome |-> r.outcome]
        /\ UNCHANGED themeManager
        /\ UNCHANGED engine
        /\ UNCHANGED frontEnds

CallMemoryClear ==
    LET r == MemoryClear(memory, localStorage)
    IN  /\ InRange(r.memory.value)
        /\ memory' = r.memory
        /\ localStorage' = r.localStorage
        /\ called' = [method |-> "Memory.clear", outcome |-> r.outcome]
        /\ UNCHANGED themeManager
        /\ UNCHANGED engine
        /\ UNCHANGED frontEnds

\* the methods of ThemeManager, and Calculator.toggleTheme
CallSetTheme ==
    \E name \in ThemeNames :
        LET r == SetTheme(themeManager, localStorage, name)
        IN  /\ themeManager' = r.themeManager
            /\ localStorage' = r.localStorage
            /\ called' = [method |-> "ThemeManager.setTheme", outcome |-> r.outcome]
            /\ UNCHANGED memory
            /\ UNCHANGED engine
            /\ UNCHANGED frontEnds

CallToggleTheme ==
    LET r == ToggleTheme(themeManager, localStorage)
    IN  /\ themeManager' = r.themeManager
        /\ localStorage' = r.localStorage
        /\ called' = [method |-> "ThemeManager.toggleTheme", outcome |-> r.outcome]
        /\ UNCHANGED memory
        /\ UNCHANGED engine
        /\ UNCHANGED frontEnds

CallAddTheme ==
    \E name \in ThemeNames :
        LET r == AddTheme(themeManager, localStorage, name)
        IN  /\ themeManager' = r.themeManager
            /\ localStorage' = r.localStorage
            /\ called' = [method |-> "ThemeManager.addTheme", outcome |-> r.outcome]
            /\ UNCHANGED memory
            /\ UNCHANGED engine
            /\ UNCHANGED frontEnds

CallRemoveTheme ==
    \E name \in ThemeNames :
        LET r == RemoveTheme(themeManager, localStorage, name)
        IN  /\ themeManager' = r.themeManager
            /\ localStorage' = r.localStorage
            /\ called' = [method |-> "ThemeManager.removeTheme", outcome |-> r.outcome]
            /\ UNCHANGED memory
            /\ UNCHANGED engine
            /\ UNCHANGED frontEnds

CallCalculatorToggleTheme ==
    LET r == CalculatorToggleTheme(themeManager, localStorage)
    IN  /\ themeManager' = r.themeManager
        /\ localStorage' = r.localStorage
        /\ called' = [method |-> "Calculator.toggleTheme", outcome |-> r.outcome]
        /\ UNCHANGED memory
        /\ UNCHANGED engine
        /\ UNCHANGED frontEnds

\* the page is loaded again: new Calculator()
Reload ==
    /\ memory' = NewSession(localStorage).memory
    /\ themeManager' = NewSession(localStorage).themeManager
    /\ localStorage' = NewSession(localStorage).localStorage
    /\ called' = [method |-> "constructor", outcome |-> Undefined]
    /\ UNCHANGED engine
    /\ UNCHANGED frontEnds

NextSession ==
    \/ CallMemoryAdd
    \/ CallMemorySubtract
    \/ CallMemoryRecall
    \/ CallMemoryClear
    \/ CallSetTheme
    \/ CallToggleTheme
    \/ CallAddTheme
    \/ CallRemoveTheme
    \/ CallCalculatorToggleTheme
    \/ Reload

SpecSession == InitSession /\ [][NextSession]_vars

(***************************************************************************)
(* The keypad (src/unnamed/part_003).  Three of its symbols are not ASCII  *)
(* and are written by their code points.                                   *)
(***************************************************************************)
MultiplicationSign == "U+00D7"
DivisionSign == "U+00F7"
EraseToTheLeft == "U+232B"

\* the keys typed into one expression
MaxKeys == 2

\* this.keyMap
KeyMap ==
    [key \in Digit \cup {".", "+", "-", "*", "/", "Enter", "Escape",
                         "Backspace", "Delete", "c", "="} |->
        CASE key = "*"         -> MultiplicationSign
          [] key = "/"         -> DivisionSign
          [] key = "Enter"     -> "="
          [] key = "Escape"    -> "C"
          [] key = "Backspace" -> EraseToTheLeft
          [] key = "Delete"    -> "C"
          [] key = "c"         -> "C"
          [] OTHER             -> key]

\* buttonLayout of createButtons
ButtonLayout ==
    << <<"C", EraseToTheLeft, "%", DivisionSign>>,
       <<"7", "8", "9", MultiplicationSign>>,
       <<"4", "5", "6", "-">>,
       <<"1", "2", "3", "+">>,
       <<"0", ".", "=">> >>

\* the values processInput handles itself: clear, backspace, calculate
ControlValues == {"C", EraseToTheLeft, "="}

\* the values processInput hands on as expression input
KeypadSymbols ==
    (UNION {{ButtonLayout[r][i] : i \in 1..Len(ButtonLayout[r])} :
                r \in 1..Len(ButtonLayout)}
       \cup {KeyMap[key] : key \in DOMAIN KeyMap})
      \ ControlValues

InitKeypad ==
    /\ operators = OperatorTable
    /\ expression = <<>>
    /\ frame = NewFrame
    /\ previous = NoPrevious
    /\ other = NoOther
    /\ FirstSession

\* a button or key whose value is expression input
KeypadInput ==
    /\ frame.pc = "idle"
    /\ Len(expression) < MaxKeys
    /\ \E value \in KeypadSymbols : expression' = Append(expression, value)
    /\ UNCHANGED <<operators, frame, previous>>
    /\ UNCHANGED outside

\* '=': Calculator.calculate hands a non-empty input to engine.calculate
KeypadEquals ==
    /\ frame.pc = "idle"
    /\ expression # <<>>
    /\ frame' = CalculateEnter(frame, expression)
    /\ UNCHANGED <<operators, expression, previous>>
    /\ UNCHANGED outside

NextKeypad ==
    \/ KeypadInput
    \/ KeypadEquals
    \/ ToRPNTokenStep
    \/ ToRPNReturnStep
    \/ EvaluateRPNTokenStep
    \/ EvaluateRPNReturnStep

SpecKeypad == InitKeypad /\ [][NextKeypad]_vars

(***************************************************************************)
(* The two evaluators on one input: after engine.calculate(expression) has *)
(* ended, the evaluator of script.js is run on the same string.            *)
(***************************************************************************)
\* safeCalculate(expression) and the formatting of calculateResult
SafeCalculateCall ==
    /\ frame.pc = "done"
    /\ script.evaluated = NoOutcome
    /\ script' = [script EXCEPT !.evaluated = calculateResultOutcome(expression)]
    /\ UNCHANGED <<operators, expression, frame, previous, other>>
    /\ UNCHANGED <<localStorage, memory, themeManager, called, calculator, display>>

NextScript ==
    \/ Calculate
    \/ ToRPNTokenStep
    \/ ToRPNReturnStep
    \/ EvaluateRPNTokenStep
    \/ EvaluateRPNReturnStep
    \/ SafeCalculateCall

SpecScript == Init /\ [][NextScript]_vars

(***************************************************************************)
(* The controllers.  A user works the calculator through appendValue,      *)
(* clear, backspace, calculate and memoryRecall; every input is given to    *)
(* the Calculator object and to the page of script.js alike, each keeping   *)
(* its own state.  The memory holds what an earlier use has left in it.     *)
(***************************************************************************)
(* The keypad of the Calculator.  A click on a button runs the keypad's    *)
(* click listener; a key pressed runs the keypad's keydown listener and    *)
(* then the Calculator's own, in the order in which initialize registers   *)
(* them.  An exception thrown by a listener ends that listener only.       *)
(***************************************************************************)
\* the methods class Calculator defines
CalculatorMethods ==
    {"initialize", "setupEventListeners", "handleKeyboardInput",
     "appendValue", "clear", "backspace", "calculate", "memoryAdd",
     "memorySubtract", "memoryRecall", "memoryClear", "toggleTheme"}

\* Keypad.constructor(display, calculator): the parameters are bound by
\* position, and a parameter without an argument is undefined
NewKeypad(arguments) ==
    [display    |-> IF Len(arguments) >= 1 THEN arguments[1] ELSE "undefined",
     calculator |-> IF Len(arguments) >= 2 THEN arguments[2] ELSE "undefined"]

\* this.keypad = new Keypad(this)
CalculatorKeypad == NewKeypad(<<"Calculator">>)

\* Keypad.processInput(value): the method it calls on this.calculator, and
\* what the call does to the Calculator it reaches
processInput(k, value, c, d, ops) ==
    LET method == CASE value = "C"            -> "clear"
                    [] value = EraseToTheLeft -> "backspace"
                    [] value = "="            -> "calculate"
                    [] OTHER                  -> "appendInput"
    IN  IF k.calculator # "Calculator" \/ method \notin CalculatorMethods
        THEN [calculator |-> c, display |-> d, method |-> method,
              outcome |-> Thrown("TypeError")]
        ELSE LET r == CASE method = "clear"     -> CalculatorClear(c, d)
                        [] method = "backspace" -> CalculatorBackspace(c, d)
                        [] method = "calculate" -> CalculatorCalculate(c, d, ops)
                        [] OTHER                -> CalculatorAppendValue(c, d, value)
             IN  [calculator |-> r.calculator, display |-> r.display,
                  method |-> method, outcome |-> Undefined]

\* Keypad.handleKeyboardInput({key})
KeypadHandleKeyboardInput(k, key, c, d, ops) ==
    IF key \in DOMAIN KeyMap
    THEN processInput(k, KeyMap[key], c, d, ops)
    ELSE [calculator |-> c, display |-> d, method |-> "", outcome |-> Undefined]

\* Calculator.handleKeyboardInput({key}), for a key of one character or one
\* of the named keys
CalculatorHandleKeyboardInput(c, d, ops, key) ==
    CASE key \in {"Enter", "="}      -> CalculatorCalculate(c, d, ops)
      [] key \in {"Escape", "Delete"} -> CalculatorClear(c, d)
      [] key = "Backspace"           -> CalculatorBackspace(c, d)
      [] OTHER ->
           IF key \in Digit \cup {"+", "-", "*", "/", "."}
           THEN CalculatorAppendValue(c, d, key)
           ELSE CalculatorResult(c, d)

(***************************************************************************)
\* longest input typed
MaxInput == 3

\* the values passed to appendValue
CalculatorKeys == {"2", "5", "+", "-", "."}

\* the memory values an earlier use has left
StoredMemories == {Zero, <<-5, 1>>}

Pressed(method, argument) ==
    [method |-> method, argument |-> argument, outcome |-> Undefined]

InitCalculator ==
    /\ operators = OperatorTable
    /\ expression = <<>>
    /\ frame = NewFrame
    /\ previous = NoPrevious
    /\ other = NoOther
    /\ \E m \in StoredMemories :
          LET ls == IF m = Zero THEN EmptyStorage
                    ELSE MemorySave([value |-> m], EmptyStorage)
          IN  /\ localStorage = NewSession(ls).localStorage
              /\ memory = NewSession(ls).memory
              /\ themeManager = NewSession(ls).themeManager
              /\ script = [NewScript EXCEPT !.memory = m]
    /\ called = [method |-> "constructor", outcome |-> Undefined]
    /\ calculator = NewCalculator
    /\ display = NewDisplay

\* appendValue(value)
PressValue ==
    \E value \in CalculatorKeys :
        LET r == CalculatorAppendValue(calculator, display, value)
            s == appendValue(script, value)
        IN  /\ Len(r.calculator.currentInput) <= MaxInput
            /\ Len(s.currentInput) <= MaxInput
            /\ calculator' = r.calculator
            /\ display' = r.display
            /\ script' = s
            /\ called' = Pressed("appendValue", value)
            /\ UNCHANGED engine
            /\ UNCHANGED <<localStorage, memory, themeManager>>

\* clear() and clearDisplay()
PressClear ==
    LET r == CalculatorClear(calculator, display)
    IN  /\ calculator' = r.calculator
        /\ display' = r.display
        /\ script' = clearDisplay(script)
        /\ called' = Pressed("clear", "")
        /\ UNCHANGED engine
        /\ UNCHANGED <<localStorage, memory, themeManager>>

\* backspace()
PressBackspace ==
    LET r == CalculatorBackspace(calculator, display)
    IN  /\ calculator' = r.calculator
        /\ display' = r.display
        /\ script' = backspace(script)
        /\ called' = Pressed("backspace", "")
        /\ UNCHANGED engine
        /\ UNCHANGED <<localStorage, memory, themeManager>>

\* calculate() and calculateResult()
PressEquals ==
    LET r == CalculatorCalculate(calculator, display, operators)
    IN  /\ r.display.nextTimer <= MaxErrors + 1
        /\ calculator' = r.calculator
        /\ display' = r.display
        /\ script' = calculateResult(script)
        /\ called' = Pressed("calculate", "")
        /\ UNCHANGED engine
        /\ UNCHANGED <<localStorage, memory, themeManager>>

\* memoryRecall()
PressMemoryRecall ==
    LET r == CalculatorMemoryRecall(calculator, display, memory, localStorage)
    IN  /\ calculator' = r.calculator
        /\ display' = r.display
        /\ script' = memoryRecall(script)
        /\ called' = Pressed("memoryRecall", "")
        /\ UNCHANGED engine
        /\ UNCHANGED <<localStorage, memory, themeManager>>

\* a timer of showError expires
ErrorTimerExpires ==
    \E t \in display.timers :
        /\ MayExpire(display, t)
        /\ display' = TimerCallback(display, t)
        /\ called' = Pressed("timer", "")
        /\ UNCHANGED engine
        /\ UNCHANGED <<localStorage, memory, themeManager, calculator, script>>

NextCalculator ==
    \/ PressValue
    \/ PressClear
    \/ PressBackspace
    \/ PressEquals
    \/ PressMemoryRecall
    \/ ErrorTimerExpires

SpecCalculator == InitCalculator /\ [][NextCalculator]_vars

(***************************************************************************)
(* The keypad at work: buttons are clicked and keys are pressed on the     *)
(* page of a new Calculator, and the timers of the display expire in       *)
(* between.                                                                *)
(***************************************************************************)
\* the buttons createButtons lays out
KeypadButtons ==
    UNION {{ButtonLayout[r][i] : i \in 1..Len(ButtonLayout[r])} :
              r \in 1..Len(ButtonLayout)}

\* the keys pressed
PressedKeys == {"5", "-", "/", "Enter", "Escape", "Backspace", "c", "x"}

\* a click on a button of the keypad
ButtonClick ==
    \E value \in KeypadButtons :
        LET r == processInput(CalculatorKeypad, value, calculator, display,
                              operators)
        IN  /\ Len(r.calculator.currentInput) <= MaxInput
            /\ r.display.nextTimer <= MaxErrors + 1
            /\ calculator' = r.calculator
            /\ display' = r.display
            /\ called' = [method |-> "Keypad.handleButtonClick",
                          argument |-> value, calls |-> r.method,
                          outcome |-> r.outcome]
            /\ UNCHANGED engine
            /\ UNCHANGED <<localStorage, memory, themeManager, script>>

\* a key pressed: the listener of the keypad, then that of the Calculator
KeyDown ==
    \E key \in PressedKeys :
        LET k == KeypadHandleKeyboardInput(CalculatorKeypad, key, calculator,
                                           display, operators)
            r == CalculatorHandleKeyboardInput(k.calculator, k.display,
                                               operators, key)
        IN  /\ Len(r.calculator.currentInput) <= MaxInput
            /\ r.display.nextTimer <= MaxErrors + 1
            /\ calculator' = r.calculator
            /\ display' = r.display
            /\ called' = [method |-> "Keypad.handleKeyboardInput",
                          argument |-> key, calls |-> k.method,
                          outcome |-> k.outcome]
            /\ UNCHANGED engine
            /\ UNCHANGED <<localStorage, memory, themeManager, script>>

NextDispatch ==
    \/ ButtonClick
    \/ KeyDown
    \/ ErrorTimerExpires

SpecDispatch == InitCalculator /\ [][NextDispatch]_vars

(***************************************************************************)
(* The display.  The methods of the Display object are called in any       *)
(* order, and the timers they arm expire in between.                       *)
(***************************************************************************)
\* what the callers pass to update, showError and showNotification
DisplayValues == {<<>>, <<"5">>}
ErrorMessages == {"Invalid expression", "Division by zero"}
NotificationMessages == {"M+", "MC"}

\* display.update(value)
CallUpdate ==
    /\ \E value \in DisplayValues :
          /\ display' = DisplayUpdate(display, DisplayText(value))
          /\ called' = Pressed("update", "")
    /\ UNCHANGED engine
    /\ UNCHANGED <<localStorage, memory, themeManager, calculator, script>>

\* display.clear()
CallClear ==
    /\ display' = DisplayClear(display)
    /\ called' = Pressed("clear", "")
    /\ UNCHANGED engine
    /\ UNCHANGED <<localStorage, memory, themeManager, calculator, script>>

\* display.showError(message)
CallShowError ==
    /\ display.nextTimer <= MaxTimers
    /\ \E message \in ErrorMessages :
          /\ display' = DisplayShowError(display, message)
          /\ called' = Pressed("showError", message)
    /\ UNCHANGED engine
    /\ UNCHANGED <<localStorage, memory, themeManager, calculator, script>>

\* display.showNotification(message)
CallShowNotification ==
    /\ display.nextTimer <= MaxTimers
    /\ \E message \in NotificationMessages :
          /\ display' = DisplayShowNotification(display, message)
          /\ called' = Pressed("showNotification", message)
    /\ UNCHANGED engine
    /\ UNCHANGED <<localStorage, memory, themeManager, calculator, script>>

\* display.clearNotification()
CallClearNotification ==
    /\ display' = DisplayClearNotification(display)
    /\ called' = Pressed("clearNotification", "")
    /\ UNCHANGED engine
    /\ UNCHANGED <<localStorage, memory, themeManager, calculator, script>>

\* a pending timer expires and its callback runs
TimerExpires ==
    /\ \E t \in display.timers :
          /\ MayExpire(display, t)
          /\ display' = TimerCallback(display, t)
    /\ called' = Pressed("timer", "")
    /\ UNCHANGED engine
    /\ UNCHANGED <<localStorage, memory, themeManager, calculator, script>>

NextDisplay ==
    \/ CallUpdate
    \/ CallClear
    \/ CallShowError
    \/ CallShowNotification
    \/ CallClearNotification
    \/ TimerExpires

SpecDisplay == InitSession /\ [][NextDisplay]_vars

\* the event loop runs the callback of every timer that is due
SpecDisplayLive == SpecDisplay /\ WF_vars(TimerExpires)

(***************************************************************************)
(* Vocabulary of the properties.                                           *)
(***************************************************************************)
InvalidCharacter == "Invalid characters in expression"
MismatchedParentheses == "Mismatched parentheses"
DivisionByZero == "Division by zero"
InvalidExpression == "Invalid expression"

ErrorKinds == {InvalidCharacter, MismatchedParentheses, DivisionByZero, InvalidExpression}

CallEnded == frame.pc = "done"

\* the input without its whitespace
Sanitized(s) == SelectSeq(s, LAMBDA c : c \notin {" ", "\t"})

\* the characters the specification allows in an expression
SpecAllowed ==
    {"0", "1", "2", "3", "4", "5", "6", "7", "8", "9", ".", "+", "-", "*", "/", "(", ")"}

HasDisallowedChar(s) == \E i \in 1..Len(s) : s[i] \notin SpecAllowed /\ s[i] \notin {" ", "\t"}

OnlyAllowedChars(s) == ~HasDisallowedChar(s)

\* number of c in the first k characters of s
CountIn(s, k, c) == Cardinality({i \in 1..k : s[i] = c})

\* parentheses balanced: no prefix closes more than it opens, totals agree
Balanced(s) ==
    /\ \A k \in 1..Len(s) : CountIn(s, k, ")") <= CountIn(s, k, "(")
    /\ CountIn(s, Len(s), "(") = CountIn(s, Len(s), ")")

(***************************************************************************)
(* Reference evaluator: a strict lexer and a recursive-descent parser for  *)
(*    E ::= T (('+' | '-') T)*    T ::= F (('*' | '/') F)*                 *)
(*    F ::= number | '(' E ')'                                             *)
(* that evaluates while it parses.                                         *)
(***************************************************************************)
LexFail == [ok |-> FALSE, tokens |-> <<>>]

\* tokens of s from index i on; a literal is digits, or digits '.' digits
RECURSIVE RefLex(_, _)
RefLex(s, i) ==
    IF i > Len(s) THEN [ok |-> TRUE, tokens |-> <<>>]
    ELSE IF s[i] \in Digit
    THEN LET k      == DigitRunEnd(s, i)
             hasDot == k <= Len(s) /\ s[k] = "."
             e      == IF hasDot THEN DigitRunEnd(s, k + 1) ELSE k
             rest   == RefLex(s, e)
         IN  IF (hasDot /\ e = k + 1) \/ ~rest.ok THEN LexFail
             ELSE [ok |-> TRUE, tokens |-> <<SubSeq(s, i, e - 1)>> \o rest.tokens]
    ELSE IF s[i] \in {"+", "-", "*", "/", "(", ")"}
    THEN LET rest == RefLex(s, i + 1)
         IN  IF ~rest.ok THEN LexFail
             ELSE [ok |-> TRUE, tokens |-> <<<<s[i]>>>> \o rest.tokens]
    ELSE LexFail

RefIsNumber(tok) == tok[1] \in Digit \cup {"."}

\* the value of a decimal literal, read digit by digit
RECURSIVE RefDecimal(_, _, _, _, _)
RefDecimal(tok, i, num, den, afterDot) ==
    IF i > Len(tok) THEN Rat(num, den)
    ELSE IF tok[i] = "." THEN RefDecimal(tok, i + 1, num, den, TRUE)
    ELSE RefDecimal(tok, i + 1, 10 * num + DigitValue(tok[i]),
                    IF afterDot THEN 10 * den ELSE den, afterDot)

RefApply(op, a, b) ==
    CASE op = "+" -> Rat(a[1] * b[2] + b[1] * a[2], a[2] * b[2])
      [] op = "-" -> Rat(a[1] * b[2] - b[1] * a[2], a[2] * b[2])
      [] op = "*" -> Rat(a[1] * b[1], a[2] * b[2])
      [] op = "/" -> IF b[1] = 0 THEN Zero ELSE Rat(a[1] * b[2], a[2] * b[1])

ParseFail == [ok |-> FALSE, pos |-> 0, value |-> Zero, divzero |-> FALSE]

RECURSIVE RefExpr(_, _)
RECURSIVE RefExprRest(_, _)
RECURSIVE RefTerm(_, _)
RECURSIVE RefTermRest(_, _)
RECURSIVE RefFactor(_, _)

RefFactor(t, i) ==
    IF i > Len(t) THEN ParseFail
    ELSE IF RefIsNumber(t[i])
    THEN [ok |-> TRUE, pos |-> i + 1, value |-> RefDecimal(t[i], 1, 0, 1, FALSE),
          divzero |-> FALSE]
    ELSE IF t[i] = <<"(">>
    THEN LET r == RefExpr(t, i + 1)
         IN  IF r.ok /\ r.pos <= Len(t) /\ t[r.pos] = <<")">>
             THEN [r EXCEPT !.pos = @ + 1]
             ELSE ParseFail
    ELSE ParseFail

\* acc is the term parsed so far, acc.pos the next token
RefTermRest(t, acc) ==
    IF acc.pos <= Len(t) /\ t[acc.pos] \in {<<"*">>, <<"/">>}
    THEN LET f == RefFactor(t, acc.pos + 1)
         IN  IF ~f.ok THEN ParseFail
             ELSE RefTermRest(t,
                    [ok |-> TRUE, pos |-> f.pos,
                     value |-> RefApply(t[acc.pos][1], acc.value, f.value),
                     divzero |-> acc.divzero \/ f.divzero
                                   \/ (t[acc.pos] = <<"/">> /\ f.value[1] = 0)])
    ELSE acc

RefTerm(t, i) ==
    LET f == RefFactor(t, i) IN IF f.ok THEN RefTermRest(t, f) ELSE ParseFail

RefExprRest(t, acc) ==
    IF acc.pos <= Len(t) /\ t[acc.pos] \in {<<"+">>, <<"-">>}
    THEN LET f == RefTerm(t, acc.pos + 1)
         IN  IF ~f.ok THEN ParseFail
             ELSE RefExprRest(t,
                    [ok |-> TRUE, pos |-> f.pos,
                     value |-> RefApply(t[acc.pos][1], acc.value, f.value),
                     divzero |-> acc.divzero \/ f.divzero])
    ELSE acc

RefExpr(t, i) ==
    LET f == RefTerm(t, i) IN IF f.ok THEN RefExprRest(t, f) ELSE ParseFail

\* the whole token sequence as one expression
RefParse(t) ==
    LET r == RefExpr(t, 1) IN IF r.ok /\ r.pos = Len(t) + 1 THEN r ELSE ParseFail

\* the input as one expression
RefEvaluate(s) ==
    LET lexed == RefLex(s, 1) IN IF lexed.ok THEN RefParse(lexed.tokens) ELSE ParseFail

(***************************************************************************)
(* Properties of calculate.                                                *)
(***************************************************************************)
\* C1: when a call on a well-formed infix expression in which no division
\* has a zero divisor has ended, it has returned the value of the reference
\* evaluator (precedence of * and / over + and -, left to right among equal
\* precedence, parentheses first), in the engine's result format.
C1_ReferenceValue ==
    LET ref == RefEvaluate(expression)
    IN  (CallEnded /\ ref.ok /\ ~ref.divzero)
            => frame.outcome = Returned(FormatResult(ref.value))

\* a call on 2+2*3 has returned 8
C1_Witness ==
    /\ CallEnded
    /\ expression = <<"2", "+", "2", "*", "3">>
    /\ frame.outcome = Returned(<<8, 1>>)

\* C2: a call whose input has a character outside the allowed set has
\* thrown 'Invalid characters in expression' and made no token, whatever
\* else is wrong with the input; while toRPN or evaluateRPN runs the
\* input has no such character.
C2_InvalidCharacterFirst ==
    HasDisallowedChar(expression) =>
        /\ frame.pc \in {"idle", "done"}
        /\ frame.tokens = <<>> /\ frame.output = <<>> /\ frame.stack = <<>>
        /\ CallEnded => frame.outcome = Thrown(InvalidCharacter)

\* the call on (&/0 (illegal character, open parenthesis, zero divisor,
\* missing operand) has thrown 'Invalid characters in expression'
C2_Witness ==
    /\ CallEnded
    /\ expression = <<"(", "&", "/", "0">>
    /\ frame.outcome = Thrown(InvalidCharacter)

\* C3: a call on an input of allowed characters only has thrown
\* 'Mismatched parentheses' exactly when the parentheses of the input are
\* not balanced.
C3_MismatchedIffUnbalanced ==
    (CallEnded /\ OnlyAllowedChars(expression))
        => (frame.outcome = Thrown(MismatchedParentheses) <=> ~Balanced(expression))

\* the call on (2+2 has thrown 'Mismatched parentheses'
C3_Witness ==
    /\ CallEnded
    /\ expression = <<"(", "2", "+", "2">>
    /\ frame.outcome = Thrown(MismatchedParentheses)

\* evaluateRPN is at the operator sym with both operands on the stack
AtOperatorWithOperands(sym) ==
    /\ frame.pc = "evaluateRPN"
    /\ frame.ri <= Len(frame.rpn)
    /\ frame.rpn[frame.ri].type = "string"
    /\ frame.rpn[frame.ri].symbol = sym
    /\ Len(frame.stack) >= 2

\* C4: a step of evaluateRPN that applies '/' to (a, b) ends the call with
\* 'Division by zero' when b is 0, for every a, and goes on with the
\* quotient pushed when b is not 0; 'Division by zero' is thrown by no
\* other step.
C4_DivisionByZero ==
    [][/\ (AtOperatorWithOperands("/") /\ Top(frame.stack) = Zero)
            => (frame'.pc = "done" /\ frame'.outcome = Thrown(DivisionByZero))
       /\ (AtOperatorWithOperands("/") /\ Top(frame.stack) # Zero)
            => (frame'.pc = "evaluateRPN" /\ frame'.outcome = NoOutcome
                /\ Len(frame'.stack) = Len(frame.stack) - 1
                /\ Top(frame'.stack)[2] > 0)
       /\ (frame'.outcome = Thrown(DivisionByZero) /\ frame.pc # "done")
            => (AtOperatorWithOperands("/") /\ Top(frame.stack) = Zero)]_vars

\* the call on 3/(2-2) has thrown 'Division by zero'
C4_Witness ==
    /\ CallEnded
    /\ expression = <<"3", "/", "(", "2", "-", "2", ")">>
    /\ frame.outcome = Thrown(DivisionByZero)

\* evaluateRPN is at an operator with fewer than two values on the stack
AtOperatorWithoutOperands ==
    /\ frame.pc = "evaluateRPN"
    /\ frame.ri <= Len(frame.rpn)
    /\ frame.rpn[frame.ri].type = "string"
    /\ Len(frame.stack) < 2

\* C5: a step of evaluateRPN at an operator with fewer than two values on
\* the stack ends the call with 'Invalid expression' and pushes no result;
\* the calls on +, 2++2, 2+ and -2 end that way.
C5_MissingOperand ==
    [][/\ AtOperatorWithoutOperands
            => (frame'.pc = "done" /\ frame'.outcome = Thrown(InvalidExpression)
                /\ frame'.stack = <<>>)
       /\ (frame'.pc = "done"
           /\ expression \in {<<"+">>, <<"2", "+", "+", "2">>, <<"2", "+">>,
                              <<"-", "2">>})
            => frame'.outcome = Thrown(InvalidExpression)]_vars

\* the call on 2++2 has thrown 'Invalid expression'
C5_Witness ==
    /\ CallEnded
    /\ expression = <<"2", "+", "+", "2">>
    /\ frame.outcome = Thrown(InvalidExpression)

\* two Number tokens with nothing but parentheses between them
AdjacentNumbers(t) ==
    \E i, j \in 1..Len(t) :
        /\ i < j
        /\ RefIsNumber(t[i]) /\ RefIsNumber(t[j])
        /\ \A k \in (i + 1)..(j - 1) : t[k] \in {<<"(">>, <<")">>}

\* C6 (as claimed): a call on an input of allowed characters with balanced
\* parentheses whose token sequence has two Number tokens with no operator
\* between them has thrown 'Invalid expression'.
C6_AdjacentNumbersRejected ==
    (CallEnded /\ OnlyAllowedChars(expression) /\ Balanced(expression)
       /\ AdjacentNumbers(frame.tokens))
        => frame.outcome = Thrown(InvalidExpression)

\* C7 (as claimed): a call has thrown 'Invalid characters in expression'
\* only if its input has a character outside the allowed set, and a call on
\* an empty or whitespace-only input has thrown 'Invalid expression'.
C7_InvalidCharacterOnlyForDisallowed ==
    CallEnded =>
        /\ frame.outcome = Thrown(InvalidCharacter) => HasDisallowedChar(expression)
        /\ Sanitized(expression) = <<>> => frame.outcome = Thrown(InvalidExpression)

\* C8: a call that has ended has returned a number or has thrown one of the
\* four classified errors, and a call that has not ended has no outcome.
C8_FiveOutcomes ==
    /\ CallEnded =>
          \/ /\ frame.outcome.kind = "returned"
             /\ frame.outcome.value \in Int \X (Nat \ {0})
             /\ frame.outcome.message = ""
          \/ /\ frame.outcome.kind = "thrown"
             /\ frame.outcome.message \in ErrorKinds
    /\ ~CallEnded => frame.outcome = NoOutcome

\* the call on 2.+ (a decimal point with no digit after it, an operator
\* with one operand) has thrown 'Invalid expression'
C8_Witness ==
    /\ CallEnded
    /\ expression = <<"2", ".", "+">>
    /\ frame.outcome = Thrown(InvalidExpression)

\* C9: a call on a string that differs from the string of the call before
\* it only in whitespace has the outcome of that call.
C9_WhitespaceIrrelevant ==
    (CallEnded /\ previous.known
       /\ Sanitized(previous.expression) = Sanitized(expression))
        => frame.outcome = previous.outcome

\* the call on '2 2', made after the call on '22', has returned 22
C9_Witness ==
    /\ CallEnded
    /\ previous.known
    /\ previous.expression = <<"2", "2">>
    /\ expression = <<"2", " ", "2">>
    /\ frame.outcome = Returned(<<22, 1>>)

\* C10: after any calls made before it on the engine, a call that has
\* ended has the outcome of the same call on a new engine, a call repeated
\* with the same string has the outcome of the first, and the operator
\* table is the one the constructor built.
C10_PureFunction ==
    /\ operators = OperatorTable
    /\ CallEnded => frame.outcome = CalculateOutcome(OperatorTable, expression)
    /\ (CallEnded /\ previous.known /\ previous.expression = expression)
          => frame.outcome = previous.outcome

\* the call on 2+2 has been repeated, after calls on the empty string, 2
\* and 2+, and has returned 4 again
C10_Witness ==
    /\ CallEnded
    /\ previous.known
    /\ previous.expression = expression
    /\ expression = <<"2", "+", "2">>
    /\ frame.outcome = Returned(<<4, 1>>)

\* C11: with two calls of calculate in progress at once and their steps
\* interleaved in any order, a step of one call leaves the local variables
\* of the other call alone, each call ends with the outcome it has when it
\* runs alone, and the operator table stays as the constructor built it.
C11_InterleavedCallsIndependent ==
    /\ [](/\ operators = OperatorTable
          /\ frame.pc = "done" =>
                 frame.outcome = CalculateOutcome(OperatorTable, expression)
          /\ other.frame.pc = "done" =>
                 other.frame.outcome
                     = CalculateOutcome(OperatorTable, other.expression))
    /\ [][frame' = frame \/ other' = other]_vars

\* both calls are in the middle of their loops, each with values of its own
C11_Witness ==
    /\ frame.pc = "evaluateRPN"
    /\ frame.stack # <<>>
    /\ other.frame.pc = "evaluateRPN"
    /\ other.frame.stack # <<>>
    /\ other.frame.stack # frame.stack

\* x has at most k digits after the decimal point
HasAtMostFractionDigits(x, k) == Pow10(k) % x[2] = 0

\* v is x rounded to FractionDigits digits after the decimal point:
\* |v - x| <= 1 / (2 * 10^FractionDigits), for v with at most that many
\* digits; integer parts and fractions are compared apart so that no product
\* leaves the integer range
RoundedTo8(v, x) ==
    LET unit == Pow10(FractionDigits)
        a    == Abs(x[1])
        b    == x[2]
        Nq   == Abs(v[1]) \div v[2]
        Nr   == (Abs(v[1]) % v[2]) * (unit \div v[2])
        aq   == a \div b
        ar   == a % b
    IN  /\ HasAtMostFractionDigits(v, FractionDigits)
        /\ v[1] = 0 \/ (v[1] < 0) = (x[1] < 0)
        /\ IF unit % b = 0
           THEN v = x   \* x has no digit to lose
           ELSE \/ Nq = aq /\ 2 * Abs(Nr * b - ar * unit) <= b
                \/ Nq = aq + 1 /\ Nr = 0 /\ b - ar <= b \div (2 * unit)

\* C12: when calculate returns, the value it returns is the one value left
\* on the evaluation stack if that value is an integer, and otherwise that
\* value rounded to 8 digits after the decimal point; the returned value
\* never has more than 8 fractional digits, and 0.1+0.2 returns 0.3.
C12_ResultNormalised ==
    (CallEnded /\ frame.outcome.kind = "returned") =>
        /\ Len(frame.stack) = 1
        /\ IsInteger(frame.stack[1]) => frame.outcome.value = frame.stack[1]
        /\ ~IsInteger(frame.stack[1]) =>
               RoundedTo8(frame.outcome.value, frame.stack[1])
        /\ HasAtMostFractionDigits(frame.outcome.value, FractionDigits)
        /\ expression = <<"0", ".", "1", "+", "0", ".", "2">> =>
               frame.outcome.value = <<3, 10>>

\* 2/3 has left 2/3 on the stack and 0.66666667 is returned
C12_Witness ==
    /\ CallEnded
    /\ expression = <<"2", "/", "3">>
    /\ frame.stack = <<(<<2, 3>>)>>
    /\ frame.outcome = Returned(<<66666667, 100000000>>)

\* what is left to do of a call: iterations of the token loop and of the
\* postfix scan, and the two returns
Variant(f) ==
    CASE f.pc = "toRPN"       -> 2 * Len(f.tokens) - f.ti + 4
      [] f.pc = "evaluateRPN" -> Len(f.rpn) - f.ri + 2
      [] OTHER                -> 0

\* a bound on the calls of push and pop of a call with n tokens
WorkBound(n) == 4 * n + 1

\* C13: every call of calculate ends: a call that has not ended is at a
\* token of one of the two loops or at the return after it, so that it has a
\* next step; each step of a call in progress (an iteration of the token
\* loop with its pop loops, the final drain, an iteration of the postfix
\* scan, the return) lowers a measure that never goes below zero, and the
\* pushes and pops the call makes stay within a linear function of the
\* number of tokens.
C13_Terminates ==
    /\ [][frame.pc # "idle" => Variant(frame') < Variant(frame)]_vars
    /\ [](/\ Variant(frame) >= 0
          /\ frame.pc \in {"idle", "toRPN", "evaluateRPN", "done"}
          /\ frame.pc = "toRPN" => frame.ti \in 1..(Len(frame.tokens) + 1)
          /\ frame.pc = "evaluateRPN" => frame.ri \in 1..(Len(frame.rpn) + 1)
          /\ frame.work <= WorkBound(Len(frame.tokens)))

\* a call over five tokens has ended after both pop loops and the scan ran
C13_Witness ==
    /\ CallEnded
    /\ expression = <<"(", "2", "+", "2", ")">>
    /\ frame.outcome = Returned(<<4, 1>>)
    /\ frame.work > Len(frame.tokens)

\* the tokens of a call are those of its sanitized string
Tokenized == frame.pc \in {"toRPN", "evaluateRPN"}

\* token is one character of [+\-*/()]
IsOperatorOrParenToken(token) == Len(token) = 1 /\ token[1] \in OperatorOrParen

\* token is written  digits, at most one decimal point, digits  and ends in
\* a digit
NumberShape(token) ==
    /\ Len(token) >= 1
    /\ \A i \in 1..Len(token) : token[i] \in Digit \cup {"."}
    /\ Cardinality({i \in 1..Len(token) : token[i] = "."}) <= 1
    /\ token[Len(token)] \in Digit

\* C14 as claimed: every token that is not an operator or a parenthesis is
\* one or more digits optionally followed by a decimal point and one or
\* more digits, so that no Number token starts with the decimal point.
C14_NumberStartsWithDigit ==
    Tokenized =>
        \A i \in 1..Len(frame.tokens) :
            \/ IsOperatorOrParenToken(frame.tokens[i])
            \/ NumberShape(frame.tokens[i]) /\ frame.tokens[i][1] \in Digit

\* C14: every token is an operator, a parenthesis, or a Number token written
\* as zero or more digits, an optional decimal point and one or more digits;
\* the match is maximal (a Number token that follows another starts with
\* the decimal point, never with a digit); a literal that starts with the
\* decimal point is accepted: '.5' is one Number token and calculate
\* returns 0.5.
C14_NumberTokens ==
    /\ Tokenized =>
          /\ \A i \in 1..Len(frame.tokens) :
                 \/ IsOperatorOrParenToken(frame.tokens[i])
                 \/ /\ NumberShape(frame.tokens[i])
                    /\ IsNumberToken(frame.tokens[i])
          /\ \A i \in 1..(Len(frame.tokens) - 1) :
                 (NumberShape(frame.tokens[i]) /\ NumberShape(frame.tokens[i + 1]))
                     => frame.tokens[i + 1][1] = "."
          /\ frame.expression = <<".", "5">> => frame.tokens = <<(<<".", "5">>)>>
    /\ (CallEnded /\ expression = <<".", "5">>) =>
          frame.outcome = Returned(<<1, 2>>)

\* .5 has been taken as one Number token and 0.5 is returned
C14_Witness ==
    /\ CallEnded
    /\ expression = <<".", "5">>
    /\ frame.tokens = <<(<<".", "5">>)>>
    /\ frame.outcome = Returned(<<1, 2>>)

\* the texts of the tokens one after the other
RECURSIVE Concatenated(_)
Concatenated(tokens) ==
    IF tokens = <<>> THEN <<>> ELSE Head(tokens) \o Concatenated(Tail(tokens))

\* C15: the tokens of a call, written one after the other, are the
\* sanitized string character for character: no decimal point of the input
\* is dropped by the tokenizer.
C15_TokensReproduceInput ==
    Tokenized => Concatenated(frame.tokens) = frame.expression

\* C16: after every Memory.add, Memory.subtract and Memory.clear the text
\* stored under 'calculatorMemory' reads back as the value in memory; the
\* Memory a reload creates starts with the value the session before ended
\* with; Memory.recall returns null exactly when the value is 0 and the
\* value otherwise.
C16_MemoryPersists ==
    /\ [](/\ called.method \in {"Memory.add", "Memory.subtract", "Memory.clear"}
             => /\ localStorage.calculatorMemory.present
                /\ ParseFloatSigned(localStorage.calculatorMemory.text)
                       = memory.value
          /\ called.method = "Memory.recall"
             => /\ called.outcome = Null <=> memory.value = Zero
                /\ memory.value # Zero => called.outcome = Returned(memory.value))
    /\ [][called'.method = "constructor" => memory'.value = memory.value]_vars

\* a session has started with -0.75 read from the stored text
C16_Witness ==
    /\ called.method = "constructor"
    /\ memory.value = <<-3, 4>>
    /\ localStorage.calculatorMemory.text = <<"-", "0", ".", "7", "5">>

\* C17: the ThemeManager a reload creates starts with the currentTheme the
\* session before ended with, whatever setTheme, toggleTheme, addTheme and
\* removeTheme calls that session made, a custom current theme included.
C17_ThemePersists ==
    [][called'.method = "constructor" =>
           themeManager'.currentTheme = themeManager.currentTheme]_vars

C19_CalculatorToggles ==
    [][called'.method = "Calculator.toggleTheme" =>
           /\ called'.outcome.kind # "thrown"
           /\ themeManager.currentTheme = "light"
                  => themeManager'.currentTheme = "dark"
           /\ themeManager.currentTheme = "dark"
                  => themeManager'.currentTheme = "light"]_vars

\* the first fault a left-to-right scan of the postfix sequence meets, and
\* the position of the scan when it meets it: an operator with fewer than
\* two operands, a division by zero, or at the end a stack that does not
\* hold exactly one value
RECURSIVE PostfixFault(_, _, _)
PostfixFault(rpn, i, st) ==
    IF i > Len(rpn)
    THEN [index |-> i, kind |-> IF Len(st) = 1 THEN "" ELSE InvalidExpression]
    ELSE IF rpn[i].type = "number"
    THEN PostfixFault(rpn, i + 1, Append(st, rpn[i].value))
    ELSE IF Len(st) < 2
    THEN [index |-> i, kind |-> InvalidExpression]
    ELSE IF rpn[i].symbol = "/" /\ st[Len(st)] = Zero
    THEN [index |-> i, kind |-> DivisionByZero]
    ELSE PostfixFault(rpn, i + 1,
                      Append(SubSeq(st, 1, Len(st) - 2),
                             RefApply(rpn[i].symbol, st[Len(st) - 1], st[Len(st)])))

\* C20: faults are reported in the order of the pipeline.  Evaluation of the
\* postfix sequence begins only when the whole input has passed the
\* parenthesis check, so an input with unbalanced parentheses fails with
\* MismatchedParentheses whatever else is wrong with it ('(5/0', '2++(');
\* a call that fails with DivisionByZero or InvalidExpression fails with
\* the first of the two a left-to-right scan of its postfix sequence meets,
\* at the position where the scan meets it.
C20_FaultPriority ==
    /\ frame.pc = "evaluateRPN" => Balanced(frame.expression)
    /\ (CallEnded /\ frame.outcome.kind = "thrown"
           /\ frame.outcome.message \in {DivisionByZero, InvalidExpression})
          => /\ Balanced(frame.expression)
             /\ PostfixFault(frame.rpn, 1, <<>>)
                    = [index |-> frame.ri, kind |-> frame.outcome.message]
    /\ (CallEnded /\ expression \in {<<"(", "5", "/", "0">>, <<"2", "+", "+", "(">>})
          => frame.outcome = Thrown(MismatchedParentheses)

\* (5/0 has an unclosed parenthesis and a zero divisor and has failed with
\* 'Mismatched parentheses'
C20_Witness ==
    /\ CallEnded
    /\ expression = <<"(", "5", "/", "0">>
    /\ frame.output = <<NumberItem(<<5, 1>>), NumberItem(Zero), StringItem("/")>>
    /\ frame.outcome = Thrown(MismatchedParentheses)

\* the precedence the operators have in the engine's description
Precedence(sym) == IF sym \in {"*", "/"} THEN 2 ELSE 1

\* the number of entries at the top of the operator stack st that an
\* operator op sends to the output: operators of precedence >= that of op,
\* down to a '(' or the bottom
PoppedBy(st, op) ==
    LET n == Len(st)
        AllPop(k) == \A i \in (n - k + 1)..n :
                      st[i] # "(" /\ Precedence(st[i]) >= Precedence(op)
    IN  CHOOSE k \in 0..n : AllPop(k) /\ (k < n => ~AllPop(k + 1))

\* the postfix sequence as strings, a number as its token
IsNumberTokens(ts) == \A i \in 1..Len(ts) : IsNumberToken(ts[i])
PostfixOf(ts) ==
    [i \in 1..Len(ts) |->
        IF IsNumberToken(ts[i]) THEN NumberItem(ParseFloat(ts[i]))
        ELSE StringItem(ts[i][1])]

\* C21: at an operator token op the converter moves to the output every
\* operator at the top of the operator stack whose precedence is >= that of
\* op, stopping at '(' or at the bottom, and then pushes op; so the postfix
\* of a op1 b op2 c is a b op1 c op2 when op1 binds at least as tightly as
\* op2, and a b c op2 op1 otherwise.
C21_PopRule ==
    /\ [][(/\ frame.pc = "toRPN"
           /\ frame.ti <= Len(frame.tokens)
           /\ frame.tokens[frame.ti][1] \in BinaryOperators)
          => LET st == frame.operatorStack
                 op == frame.tokens[frame.ti][1]
                 n  == Len(st)
                 k  == PoppedBy(st, op)
             IN  /\ frame'.output =
                        frame.output \o [i \in 1..k |-> StringItem(st[n + 1 - i])]
                 /\ frame'.operatorStack = Append(SubSeq(st, 1, n - k), op)]_vars
    /\ [](( /\ frame.pc = "evaluateRPN"
            /\ Len(frame.tokens) = 5
            /\ IsNumberTokens(<<frame.tokens[1], frame.tokens[3], frame.tokens[5]>>)
            /\ frame.tokens[2][1] \in BinaryOperators
            /\ frame.tokens[4][1] \in BinaryOperators)
          => LET t == frame.tokens
             IN  IF Precedence(t[2][1]) >= Precedence(t[4][1])
                 THEN frame.rpn = PostfixOf(<<t[1], t[3], t[2], t[5], t[4]>>)
                 ELSE frame.rpn = PostfixOf(<<t[1], t[3], t[5], t[4], t[2]>>))

\* 8-3-2 was converted to 8 3 - 2 - and has returned 3
C21_Witness ==
    /\ CallEnded
    /\ expression = <<"8", "-", "3", "-", "2">>
    /\ frame.rpn = <<NumberItem(<<8, 1>>), NumberItem(<<3, 1>>), StringItem("-"),
                     NumberItem(<<2, 1>>), StringItem("-")>>
    /\ frame.outcome = Returned(<<3, 1>>)

\* the entries of a sequence that satisfy a test, in their order
NumberTokensOf(ts) == SelectSeq(ts, LAMBDA t : IsNumberToken(t))
NumberItemsOf(rpn) == SelectSeq(rpn, LAMBDA item : item.type = "number")
ParenthesisTokensOf(ts) == SelectSeq(ts, LAMBDA t : t[1] \in {"(", ")"})

\* C22: a postfix sequence that toRPN returns contains no parenthesis,
\* contains the numbers of the tokens in their left-to-right order, contains
\* each operator as often as the tokens do, and is as long as the tokens
\* without the parentheses.
C22_PostfixShape ==
    frame.pc = "evaluateRPN" =>
        LET ts  == frame.tokens
            rpn == frame.rpn
        IN  /\ \A i \in 1..Len(rpn) :
                   rpn[i].type = "string" => rpn[i].symbol \notin {"(", ")"}
            /\ NumberItemsOf(rpn) =
                   [i \in 1..Len(NumberTokensOf(ts)) |->
                       NumberItem(ParseFloat(NumberTokensOf(ts)[i]))]
            /\ \A o \in BinaryOperators :
                   Cardinality({i \in 1..Len(rpn) : rpn[i] = StringItem(o)})
                     = Cardinality({i \in 1..Len(ts) : ts[i] = <<o>>})
            /\ Len(rpn) = Len(ts) - Len(ParenthesisTokensOf(ts))

\* toRPN has returned 2 3 + 2 * for (2+3)*2
C22_Witness ==
    /\ frame.pc = "evaluateRPN"
    /\ expression = <<"(", "2", "+", "3", ")", "*", "2">>
    /\ frame.rpn = <<NumberItem(<<2, 1>>), NumberItem(<<3, 1>>), StringItem("+"),
                     NumberItem(<<2, 1>>), StringItem("*")>>

\* C23: the evaluator of script.js (safeCalculate and the formatting of
\* calculateResult) and CalculatorEngine.calculate end alike on every input:
\* with the same number, or with an Error of the same message.
C23_EvaluatorsAgree ==
    script.evaluated # NoOutcome =>
        /\ CallEnded
        /\ script.evaluated.kind \in {"returned", "thrown"}
        /\ script.evaluated = frame.outcome

\* both evaluators have returned 0.66666667 for 2/3
C23_Witness ==
    /\ expression = <<"2", "/", "3">>
    /\ frame.outcome = Returned(<<66666667, 100000000>>)
    /\ script.evaluated = Returned(<<66666667, 100000000>>)

\* two operator characters next to each other in a string
AdjacentOperators(input) ==
    \E i \in 1..(Len(input) - 1) :
        input[i] \in BinaryOperators /\ input[i + 1] \in BinaryOperators

\* C24: under appendValue of single characters, backspace, clear, calculate
\* and memoryRecall, currentInput never holds two operator characters next
\* to each other, in the Calculator object and in script.js.
C24_NoAdjacentOperators ==
    /\ ~AdjacentOperators(calculator.currentInput)
    /\ ~AdjacentOperators(script.currentInput)

\* '-' was appended after '2+' and has replaced the '+'
C24_Witness ==
    /\ called = Pressed("appendValue", "-")
    /\ calculator.currentInput = <<"2", "-">>
    /\ script.currentInput = <<"2", "-">>
    /\ display.value = DisplayText(<<"2", "-">>)

\* the numeric literal being entered: the trailing run of digits and '.'
RECURSIVE TrailingLiteral(_)
TrailingLiteral(input) ==
    IF input = <<>> \/ input[Len(input)] \notin Digit \cup {"."} THEN <<>>
    ELSE Append(TrailingLiteral(SubSeq(input, 1, Len(input) - 1)),
                input[Len(input)])

HasPoint(input) == \E i \in 1..Len(input) : input[i] = "."

\* the input a value that is not an operator is appended to: a result on
\* show is dropped first
InputAt(c) == IF c.lastResult # Null THEN <<>> ELSE c.currentInput

\* appendValue('.') on input: ignored exactly when the literal being entered
\* has a point, appended otherwise
PointRule(input, after) ==
    IF HasPoint(TrailingLiteral(input)) THEN after = input
    ELSE after = Append(input, ".")

\* C25: appendValue('.') is ignored exactly when the numeric literal being
\* entered (the trailing run of digits and '.' of currentInput) already has
\* a decimal point; a point in an earlier operand does not block it.
C25_PointPerLiteral ==
    [][(called'.method = "appendValue" /\ called'.argument = ".") =>
          /\ PointRule(InputAt(calculator), calculator'.currentInput)
          /\ PointRule(InputAt(script), script'.currentInput)]_vars

\* an operator was appended to the text of the result r that is on show
ContinuedBy(c, op) ==
    /\ c.lastResult.kind = "returned"
    /\ c.currentInput = Append(NumberToString(c.lastResult.value), op)

\* C26: after a successful calculate with result r, appendValue(op) for an
\* operator op followed by appendValue(d) for a digit d leaves currentInput
\* equal to String(r) followed by op and d.
C26_ContinueFromResult ==
    [][\A op \in OperatorValues, d \in Digit :
          (called = Pressed("appendValue", op) /\ called' = Pressed("appendValue", d))
          => /\ ContinuedBy(calculator, op) =>
                    calculator'.currentInput = Append(calculator.currentInput, d)
             /\ ContinuedBy(script, op) =>
                    script'.currentInput = Append(script.currentInput, d)]_vars

\* C27: when the engine fails, calculate shows the message of the error,
\* empties currentInput and leaves lastResult as it was; when currentInput
\* is empty, calculate changes neither currentInput, lastResult nor the
\* display.
C27_CalculateFailure ==
    [][called' = Pressed("calculate", "") =>
          LET engineOutcome == CalculateOutcome(operators, calculator.currentInput)
              scriptOutcome == calculateResultOutcome(script.currentInput)
          IN  /\ calculator.currentInput = <<>> =>
                     calculator' = calculator /\ display' = display
              /\ script.currentInput = <<>> => script' = script
              /\ (calculator.currentInput # <<>> /\ engineOutcome.kind = "thrown") =>
                     /\ display'.value = DisplayMessage(engineOutcome.message)
                     /\ display'.error
                     /\ calculator'.currentInput = <<>>
                     /\ calculator'.lastResult = calculator.lastResult
              /\ (script.currentInput # <<>> /\ scriptOutcome.kind = "thrown") =>
                     /\ script'.display.value = DisplayMessage(scriptOutcome.message)
                     /\ script'.display.error
                     /\ script'.currentInput = <<>>
                     /\ script'.lastResult = script.lastResult]_vars

\* '5-' typed after the result 5 has failed: the message is on show, the
\* input is empty and lastResult is still 5
C27_Witness ==
    /\ called = Pressed("calculate", "")
    /\ display.value = DisplayMessage("Invalid expression")
    /\ display.error
    /\ calculator = [currentInput |-> <<>>, lastResult |-> Returned(<<5, 1>>)]
    /\ script.currentInput = <<>>
    /\ script.lastResult = Returned(<<5, 1>>)

\* the text of the result is the input, as calculate leaves it on success
ResultOnShow(c) ==
    /\ c.lastResult.kind = "returned"
    /\ c.currentInput = NumberToString(c.lastResult.value)

\* C28: the text String(r) that calculate stores as currentInput after a
\* result r is itself accepted by calculate and evaluates to r: a second
\* calculate directly after a successful one leaves currentInput and
\* lastResult unchanged and shows no error.
C28_ResultRoundTrip ==
    [][(called = Pressed("calculate", "") /\ called' = Pressed("calculate", "")) =>
          /\ ResultOnShow(calculator) =>
                 /\ CalculateOutcome(operators, calculator.currentInput)
                        = calculator.lastResult
                 /\ calculator' = calculator
                 /\ ~display'.error
          /\ ResultOnShow(script) =>
                 /\ calculateResultOutcome(script.currentInput) = script.lastResult
                 /\ script'.currentInput = script.currentInput
                 /\ script'.lastResult = script.lastResult
                 /\ ~script'.display.error]_vars

\* C29: the timer armed by one call of showError clears only the error
\* state that call raised: when it expires while the error state of a later
\* showError is on show, it leaves that state alone.
C29_TimerClearsOwnError ==
    [][\A t \in display.timers :
          (/\ t.removes = "error"
           /\ t \notin display'.timers
           /\ display.error
           /\ ~display'.error)
          => display.raisedBy = t.id]_vars

\* the notification element created by the call of setTimeout number n is
\* in the document
NotificationShown(n) == \E e \in display.notifications : e.element = n

\* C30: under any interleaving of showNotification calls and timer
\* expiries at most one memory notification is in the document, the one
\* that is there is the one whose timer is stored and pending, and every
\* notification that is shown is removed in the end, by its own timer or by
\* the next showNotification.
C30_OneNotification ==
    /\ [](/\ Cardinality(display.notifications) <= 1
          /\ \A e \in display.notifications :
                 /\ display.notificationTimeout = e.element
                 /\ NotificationTimer(e.element, e.element) \in display.timers)
    /\ \A n \in 1..(MaxTimers + 1) : NotificationShown(n) ~> ~NotificationShown(n)

\* a second showNotification has replaced the notification of the first and
\* cancelled its timer
C30_Witness ==
    /\ called = Pressed("showNotification", "MC")
    /\ display.notifications = {[element |-> 2, text |-> "MC"]}
    /\ display.timers = {NotificationTimer(2, 2)}
    /\ display.notificationTimeout = 2

\* within each run of operators of the stack st between '(' entries the
\* precedences rise strictly from bottom to top, and no run is longer than
\* two
StrictSegments(st) ==
    /\ \A i \in 1..(Len(st) - 1) :
           (st[i] # "(" /\ st[i + 1] # "(") =>
               Precedence(st[i]) < Precedence(st[i + 1])
    /\ \A i \in 1..(Len(st) - 2) : \E j \in i..(i + 2) : st[j] = "("

\* C34: at every step of toRPN, within each segment of the operator stack
\* delimited by '(' entries or the stack bottom, the precedences of the
\* operators rise strictly from bottom to top: a segment never holds more
\* than two operators nor two of equal precedence.  The same holds for the
\* operator stack of safeCalculate after each prefix of the tokens.
C34_OperatorStackSegments ==
    /\ StrictSegments(frame.operatorStack)
    /\ frame.pc = "toRPN" =>
           StrictSegments(
               safeCalculateTokens(SubSeq(frame.tokens, 1, frame.ti - 1),
                                   1, <<>>, <<>>).operators)

\* in 2+3*2 the token '*' was pushed on top of '+'
C34_Witness ==
    /\ frame.pc = "toRPN"
    /\ expression = <<"2", "+", "3", "*", "2">>
    /\ frame.ti = 5
    /\ frame.operatorStack = <<"+", "*">>

\* the methods of ThemeManager that change it
ThemeCalls ==
    {"ThemeManager.setTheme", "ThemeManager.toggleTheme",
     "ThemeManager.addTheme", "ThemeManager.removeTheme"}

\* C31: after every setTheme, toggleTheme, addTheme and removeTheme call,
\* ended with or without an error, currentTheme names a theme of the themes
\* table and the stored 'calculatorTheme' equals currentTheme; a call that
\* fails changes neither the ThemeManager nor the stored value, and a call
\* succeeds only for a name the claim allows: setTheme for a theme of the
\* table, addTheme for a name the table lacks, removeTheme for a theme of
\* the table that is not the current one.
C31_ThemeInvariant ==
    /\ [](called.method \in ThemeCalls =>
              /\ themeManager.currentTheme \in themeManager.themes
              /\ localStorage.calculatorTheme
                     = [present |-> TRUE, text |-> themeManager.currentTheme])
    /\ [][called'.method \in ThemeCalls =>
              IF called'.outcome.kind = "thrown"
              THEN UNCHANGED <<themeManager, localStorage>>
              ELSE /\ called'.method = "ThemeManager.setTheme" =>
                          themeManager'.currentTheme \in themeManager.themes
                   /\ called'.method = "ThemeManager.addTheme" =>
                          \E name \in ThemeNames \ themeManager.themes :
                              themeManager'.themes
                                  = themeManager.themes \cup {name}
                   /\ called'.method = "ThemeManager.removeTheme" =>
                          \E name \in themeManager.themes
                                        \ {themeManager.currentTheme} :
                              themeManager'.themes = themeManager.themes \ {name}]_vars

\* the theme toggleTheme is to switch to
Toggled(theme) == IF theme = "light" THEN "dark" ELSE "light"

\* C32: in every state reached through setTheme, toggleTheme, addTheme and
\* removeTheme, toggleTheme succeeds and returns the new active theme,
\* 'dark' when the current theme was 'light' and 'light' otherwise; from
\* 'light' or 'dark' a second toggleTheme restores the theme the first one
\* left.
C32_ToggleSucceeds ==
    [][called'.method = "ThemeManager.toggleTheme" =>
          /\ called'.outcome = ReturnedText(Toggled(themeManager.currentTheme))
          /\ themeManager'.currentTheme = Toggled(themeManager.currentTheme)
          /\ (/\ called.method = "ThemeManager.toggleTheme"
              /\ called.outcome.kind = "text"
              /\ themeManager.currentTheme = "dark")
             => themeManager'.currentTheme = "light"]_vars

(***************************************************************************)
(* C33  Keypad dispatch: the keypad the Calculator constructor creates     *)
(* holds a reference to that Calculator, and every click on a button and   *)
(* every mapped key calls a method the Calculator defines, so that no      *)
(* press ends in a call on an undefined object or method.                  *)
(***************************************************************************)
KeypadCalls == {"Keypad.handleButtonClick", "Keypad.handleKeyboardInput"}

C33_KeypadDispatch ==
    (called.method \in KeypadCalls /\ called.calls # "") =>
        /\ CalculatorKeypad.calculator = "Calculator"
        /\ called.calls \in CalculatorMethods
        /\ called.outcome.kind # "thrown"

====
